---- MODULE Spec2Model ----
(***************************************************************************)
(* Model of the rollback journal of Selabt (src/src/rollback.rs).          *)
(*                                                                         *)
(* Rust Strings are modelled as sequences of one-character strings, so     *)
(* that format!() is concatenation and split_once really scans for the     *)
(* separator.  A VecDeque is a sequence whose head is the front.           *)
(***************************************************************************)
EXTENDS Integers, Sequences, FiniteSets, TLC

(***************************************************************************)
(* Bounds of the model.                                                    *)
(***************************************************************************)
\* max_history of the model's journal (the program sets 200, rollback.rs:43)
MaxHistory == 2
\* last millisecond the clock reaches
MaxClock == 2
\* the ghost counter of rollback_last calls sticks at this value
MaxRbCount == 4
\* number of save_history_to_disk calls that may fail in one behaviour
MaxSaveFailures == 1
\* number of boolean names the snapshots handed to the diff engine draw from
MaxBoolNames == 2

(***************************************************************************)
(* Strings.                                                                *)
(***************************************************************************)
FmtSetsebool == <<"s","e","t","s","e","b","o","o","l"," ","-","P"," ">>
FmtOn == <<"o","n">>
FmtOff == <<"o","f","f">>
FmtSemoduleE == <<"s","e","m","o","d","u","l","e"," ","-","e"," ">>
FmtSemoduleD == <<"s","e","m","o","d","u","l","e"," ","-","d"," ">>
FmtFcontextAdd == <<"s","e","m","a","n","a","g","e"," ","f","c","o","n","t","e","x","t"," ","-","a"," ","-","t"," ">>
FmtRestorecon == <<"r","e","s","t","o","r","e","c","o","n"," ","-","v"," ">>
FmtFcontextDel == <<"s","e","m","a","n","a","g","e"," ","f","c","o","n","t","e","x","t"," ","-","d"," ">>
FmtPortAdd == <<"s","e","m","a","n","a","g","e"," ","p","o","r","t"," ","-","a"," ","-","t"," ">>
FmtDashP == <<" ","-","p"," ">>
FmtPortDel == <<"s","e","m","a","n","a","g","e"," ","p","o","r","t"," ","-","d"," ","-","p"," ">>
FmtChg == <<"c","h","g","_">>
FmtRollbackId == <<"r","o","l","l","b","a","c","k","_">>
FmtRolledBack == <<"R","o","l","l","e","d"," ","b","a","c","k",":"," ">>
ActRollback == <<"R","o","l","l","b","a","c","k">>
Space == <<" ">>

DigitChars == <<"0","1","2","3","4","5","6","7","8","9">>

\* Display of an i64 (the clock never goes negative here)
RECURSIVE Dec(_)
Dec(n) == IF n < 10 THEN <<DigitChars[n + 1]>>
          ELSE Dec(n \div 10) \o <<DigitChars[(n % 10) + 1]>>

\* index of the first occurrence of sep in s at or after i, 0 if none
RECURSIVE FindFrom(_, _, _)
FindFrom(s, sep, i) ==
    IF i > Len(s) THEN 0
    ELSE IF s[i] = sep THEN i
    ELSE FindFrom(s, sep, i + 1)

None == [some |-> FALSE]

\* s.splitn(2, sep): Some((before, after)) around the first sep, else None
split_once(s, sep) ==
    LET i == FindFrom(s, sep, 1)
    IN  IF i = 0 THEN None
        ELSE [some |-> TRUE, a |-> SubSeq(s, 1, i - 1), b |-> SubSeq(s, i + 1, Len(s))]

(***************************************************************************)
(* Sequences and sets.                                                     *)
(***************************************************************************)
Range(s) == {s[i] : i \in 1..Len(s)}

\* the orders in which an unordered collection (HashMap, HashSet) can be
\* iterated
Orders(S) ==
    {p \in [1..Cardinality(S) -> S] : \A i, j \in 1..Cardinality(S) : p[i] = p[j] => i = j}

RECURSIVE Concat(_)
Concat(ss) == IF ss = <<>> THEN <<>> ELSE Head(ss) \o Concat(Tail(ss))

(***************************************************************************)
(* Diff engine: RollbackManager::generate_rollback_commands.               *)
(***************************************************************************)
\* HashMap built by inserting name -> value in order (a later entry of the
\* same name overwrites an earlier one)
RECURSIVE InsertAll(_, _, _)
InsertAll(m, entries, field) ==
    IF entries = <<>> THEN m
    ELSE LET e == Head(entries)
             m2 == [n \in (DOMAIN m) \cup {e.name} |->
                        IF n = e.name THEN e[field] ELSE m[n]]
         IN  InsertAll(m2, Tail(entries), field)

EmptyMap == [n \in {} |-> FALSE]

\* BoolCmd that writes the new value
BoolCmd_new_value(name, prev_val) ==
    FmtSetsebool \o name \o Space \o (IF prev_val THEN FmtOff ELSE FmtOn)

BoolCmd(name, prev_val) ==
    FmtSetsebool \o name \o Space \o (IF prev_val THEN FmtOn ELSE FmtOff)

ModCmd(name, prev_enabled) ==
    IF prev_enabled THEN FmtSemoduleE \o name ELSE FmtSemoduleD \o name

\* Changed without the comparison of the two values
Changed_any_common(prev_map, new_map) ==
    {n \in DOMAIN prev_map : n \in DOMAIN new_map}

\* Changed that takes a name new_map lacks for a changed one
Changed_or_absent(prev_map, new_map) ==
    {n \in DOMAIN prev_map : n \notin DOMAIN new_map \/ prev_map[n] # new_map[n]}

\* names of prev_map that new_map also holds with another value
Changed(prev_map, new_map) ==
    {n \in DOMAIN prev_map : n \in DOMAIN new_map /\ prev_map[n] # new_map[n]}

BooleanCmds(previous, new) ==
    LET prev_map == InsertAll(EmptyMap, previous.booleans, "current_value")
        new_map == InsertAll(EmptyMap, new.booleans, "current_value")
    IN  {[i \in DOMAIN p |-> BoolCmd(p[i], prev_map[p[i]])] :
            p \in Orders(Changed(prev_map, new_map))}

ModuleCmds(previous, new) ==
    LET prev_mod == InsertAll(EmptyMap, previous.modules, "enabled")
        new_mod == InsertAll(EmptyMap, new.modules, "enabled")
    IN  {[i \in DOMAIN p |-> ModCmd(p[i], prev_mod[p[i]])] :
            p \in Orders(Changed(prev_mod, new_mod))}

\* FcMissingCmds without the restorecon command
FcMissingCmds_no_restorecon(missing) ==
    LET sp == split_once(missing, ":")
    IN  IF sp.some
        THEN << FmtFcontextAdd \o sp.b \o Space \o sp.a >>
        ELSE <<>>

FcMissingCmds(missing) ==
    LET sp == split_once(missing, ":")
    IN  IF sp.some
        THEN << FmtFcontextAdd \o sp.b \o Space \o sp.a, FmtRestorecon \o sp.a >>
        ELSE <<>>

\* FcExtraCmds with a restorecon command as for a re-added rule
FcExtraCmds_with_restorecon(extra) ==
    LET sp == split_once(extra, ":")
    IN  IF sp.some
        THEN << FmtFcontextDel \o sp.a, FmtRestorecon \o sp.a >>
        ELSE <<>>

FcExtraCmds(extra) ==
    LET sp == split_once(extra, ":")
    IN  IF sp.some THEN << FmtFcontextDel \o sp.a >> ELSE <<>>

PortMissingCmds(missing) ==
    LET sp == split_once(missing, ":")
    IN  IF sp.some
        THEN LET pp == split_once(sp.a, "/")
             IN  IF pp.some
                 THEN << FmtPortAdd \o sp.b \o FmtDashP \o pp.b \o Space \o pp.a >>
                 ELSE <<>>
        ELSE <<>>

PortExtraCmds(extra) ==
    LET sp == split_once(extra, ":")
    IN  IF sp.some
        THEN LET pp == split_once(sp.a, "/")
             IN  IF pp.some
                 THEN << FmtPortDel \o pp.b \o Space \o pp.a >>
                 ELSE <<>>
        ELSE <<>>

\* FileContextCmds without the loop over the rules only new holds
FileContextCmds_missing_only(previous, new) ==
    LET prev_fc == Range(previous.file_contexts)
        new_fc == Range(new.file_contexts)
    IN  {Concat([i \in DOMAIN p |-> FcMissingCmds(p[i])]) :
            p \in Orders(prev_fc \ new_fc)}

FileContextCmds(previous, new) ==
    LET prev_fc == Range(previous.file_contexts)
        new_fc == Range(new.file_contexts)
    IN  {Concat([i \in DOMAIN p |-> FcMissingCmds(p[i])])
            \o Concat([i \in DOMAIN q |-> FcExtraCmds(q[i])]) :
            p \in Orders(prev_fc \ new_fc), q \in Orders(new_fc \ prev_fc)}

PortCmds(previous, new) ==
    LET prev_ports == Range(previous.ports)
        new_ports == Range(new.ports)
    IN  {Concat([i \in DOMAIN p |-> PortMissingCmds(p[i])])
            \o Concat([i \in DOMAIN q |-> PortExtraCmds(q[i])]) :
            p \in Orders(prev_ports \ new_ports), q \in Orders(new_ports \ prev_ports)}

\* generate_rollback_commands with the port section moved to the front
generate_rollback_commands_ports_first(previous, new) ==
    {p \o b \o m \o f :
        b \in BooleanCmds(previous, new), m \in ModuleCmds(previous, new),
        f \in FileContextCmds(previous, new), p \in PortCmds(previous, new)}

\* the set of command sequences the call can return (one per iteration
\* order of the HashMaps and HashSets)
generate_rollback_commands(previous, new) ==
    {b \o m \o f \o p :
        b \in BooleanCmds(previous, new), m \in ModuleCmds(previous, new),
        f \in FileContextCmds(previous, new), p \in PortCmds(previous, new)}

\* the merge without the test for a command already in the list
MergeCommands_all(rollback_commands, auto) == rollback_commands \o auto

\* record_change's merge: the provided commands, then each generated command
\* that is not yet in the list
RECURSIVE MergeCommands(_, _)
MergeCommands(rollback_commands, auto) ==
    IF auto = <<>> THEN rollback_commands
    ELSE IF \E i \in 1..Len(rollback_commands) : rollback_commands[i] = Head(auto)
         THEN MergeCommands(rollback_commands, Tail(auto))
         ELSE MergeCommands(Append(rollback_commands, Head(auto)), Tail(auto))

(***************************************************************************)
(* Data of the journal model.                                              *)
(***************************************************************************)
NameB == <<"b">>
RuleFc == <<"/","p",":","t">>
ModeEnforcing == <<"E","n","f","o","r","c","i","n","g">>

\* BooleanState of booleans.rs
BoolB(v) ==
    [name |-> NameB, description |-> <<>>, current_value |-> v,
     persistent |-> TRUE, default_value |-> FALSE]

\* SystemState: boolean b off, no file-context rule
SnapA ==
    [timestamp |-> <<"0">>, selinux_mode |-> ModeEnforcing,
     booleans |-> <<BoolB(FALSE)>>, modules |-> <<>>,
     file_contexts |-> <<>>, ports |-> <<>>]

\* SystemState: boolean b on, one file-context rule
SnapB ==
    [timestamp |-> <<"0">>, selinux_mode |-> ModeEnforcing,
     booleans |-> <<BoolB(TRUE)>>, modules |-> <<>>,
     file_contexts |-> <<RuleFc>>, ports |-> <<>>]

\* what callers pass to record_change: previous_state, new_state and
\* provided_rollback_commands
RecordInputs ==
    { <<SnapA, SnapA, <<>>>>,
      <<SnapA, SnapB, <<>>>>,
      <<SnapA, SnapB, <<BoolCmd(NameB, FALSE)>>>>,
      <<SnapB, SnapA, <<BoolCmd(NameB, FALSE)>>>> }

Actions == {<<"S","e","t">>}
Descriptions == {<<"d">>}

\* an id no record carries
AbsentId == <<"x">>

\* how running one command through sh can end: exit status 0, a nonzero
\* exit status, or the process could not be spawned
Outcomes == {"ok", "nonzero", "spawn_error"}

\* how fs::write, which truncates the file and then writes the data, can
\* end: written, or failed with a part of the data in the file
SaveOutcomes == {"ok", "partial"}

max_history == MaxHistory

(***************************************************************************)
(* The managers, whose lists the snapshots copy, and the policy tools as   *)
(* the managers account for them.                                          *)
(***************************************************************************)
NameA == <<"a">>
NameC == <<"c">>
NameM == <<"m">>
PathP == <<"/","p">>
TypeT == <<"t">>
TypeU == <<"u">>
Port8 == <<"8">>
ProtoTcp == <<"t","c","p">>
TypeH == <<"h">>
\* a command only a caller provides
CustomCmd == <<"t","r","u","e">>

BoolNameSeq == SubSeq(<<NameA, NameB, NameC>>, 1, MaxBoolNames)

BooleanState(name, v) ==
    [name |-> name, description |-> <<>>, current_value |-> v,
     persistent |-> TRUE, default_value |-> FALSE]

SELinuxModule(name, enabled) ==
    [name |-> name, enabled |-> enabled, priority |-> 400]

FileContext(path, context) == [path |-> path, context |-> context]

PortContext(port, protocol, context) ==
    [port |-> port, protocol |-> protocol, context |-> context]

\* the list of booleans in which name n is absent, off or on as f[n] says
BoolList(f) ==
    LET present == SelectSeq(BoolNameSeq, LAMBDA n : f[n] # "absent")
    IN  [i \in DOMAIN present |-> BooleanState(present[i], f[present[i]] = "on")]

BoolLists == {BoolList(f) : f \in [Range(BoolNameSeq) -> {"absent", "off", "on"}]}
ModuleLists == {<<>>} \cup {<<SELinuxModule(NameM, e)>> : e \in BOOLEAN}
ContextLists == {<<>>} \cup {<<FileContext(PathP, t)>> : t \in {TypeT, TypeU}}
PortLists == {<<>>, <<PortContext(Port8, ProtoTcp, TypeH)>>}

\* the lists of boolean_manager, module_manager, file_context_manager and
\* port_manager
Managers ==
    [booleans : BoolLists, modules : ModuleLists,
     contexts : ContextLists, ports : PortLists]

NoManagers == [booleans |-> <<>>, modules |-> <<>>, contexts |-> <<>>, ports |-> <<>>]

\* format!("{}:{}", c.path, c.context)
FcRule(c) == c.path \o <<":">> \o c.context

\* format!("{}/{}:{}", p.port, p.protocol, p.context)
PortRule(p) == p.port \o <<"/">> \o p.protocol \o <<":">> \o p.context

\* App::get_current_system_state: the snapshot of the managers' lists
get_current_system_state(m) ==
    [timestamp |-> <<"0">>, selinux_mode |-> ModeEnforcing,
     booleans |-> m.booleans, modules |-> m.modules,
     file_contexts |-> [i \in DOMAIN m.contexts |-> FcRule(m.contexts[i])],
     ports |-> [i \in DOMAIN m.ports |-> PortRule(m.ports[i])]]

\* index of the first entry of list named name, 0 if none
RECURSIVE FindName(_, _, _)
FindName(list, name, i) ==
    IF i > Len(list) THEN 0
    ELSE IF list[i].name = name THEN i
    ELSE FindName(list, name, i + 1)

\* BooleanManager::set_boolean
set_boolean(booleans, name, value) ==
    LET i == FindName(booleans, name, 1)
    IN  IF i = 0 THEN booleans
        ELSE [booleans EXCEPT ![i].current_value = value]

\* ModuleManager::enable_module
enable_module(modules, name) ==
    LET i == FindName(modules, name, 1)
    IN  IF i = 0 THEN modules ELSE [modules EXCEPT ![i].enabled = TRUE]

\* ModuleManager::disable_module
disable_module(modules, name) ==
    LET i == FindName(modules, name, 1)
    IN  IF i = 0 THEN modules ELSE [modules EXCEPT ![i].enabled = FALSE]

\* FileContextManager::add_file_context
add_file_context(contexts, path, context) ==
    Append(contexts, FileContext(path, context))

\* FileContextManager::remove_file_context
remove_file_context(contexts, path) ==
    SelectSeq(contexts, LAMBDA c : c.path # path)

\* PortManager::add_port
add_port(ports, port, protocol, context) ==
    Append(ports, PortContext(port, protocol, context))

\* PortManager::remove_port
remove_port(ports, port, protocol) ==
    SelectSeq(ports, LAMBDA p : p.port # port \/ p.protocol # protocol)

StartsWith(s, prefix) ==
    Len(prefix) <= Len(s) /\ SubSeq(s, 1, Len(prefix)) = prefix

After(s, prefix) == SubSeq(s, Len(prefix) + 1, Len(s))

\* the words of a command line, which blanks separate
RECURSIVE Words(_)
Words(s) ==
    LET i == FindFrom(s, " ", 1)
    IN  IF i = 0 THEN <<s>>
        ELSE <<SubSeq(s, 1, i - 1)>> \o Words(SubSeq(s, i + 1, Len(s)))

\* sh -c cmd with exit status 0: what the tool does to the policy is what
\* the manager that issues the same command line does to its list
Run(m, cmd) ==
    CASE StartsWith(cmd, FmtSetsebool) ->
            LET w == Words(After(cmd, FmtSetsebool))
            IN  IF Len(w) = 2 /\ w[2] \in {FmtOn, FmtOff}
                THEN [m EXCEPT !.booleans = set_boolean(@, w[1], w[2] = FmtOn)]
                ELSE m
      [] StartsWith(cmd, FmtSemoduleE) ->
            [m EXCEPT !.modules = enable_module(@, After(cmd, FmtSemoduleE))]
      [] StartsWith(cmd, FmtSemoduleD) ->
            [m EXCEPT !.modules = disable_module(@, After(cmd, FmtSemoduleD))]
      [] StartsWith(cmd, FmtFcontextAdd) ->
            LET w == Words(After(cmd, FmtFcontextAdd))
            IN  IF Len(w) = 2
                THEN [m EXCEPT !.contexts = add_file_context(@, w[2], w[1])]
                ELSE m
      [] StartsWith(cmd, FmtFcontextDel) ->
            [m EXCEPT !.contexts = remove_file_context(@, After(cmd, FmtFcontextDel))]
      [] StartsWith(cmd, FmtPortAdd) ->
            LET w == Words(After(cmd, FmtPortAdd))
            IN  IF Len(w) = 4 /\ w[2] = <<"-","p">>
                THEN [m EXCEPT !.ports = add_port(@, w[4], w[3], w[1])]
                ELSE m
      [] StartsWith(cmd, FmtPortDel) ->
            LET w == Words(After(cmd, FmtPortDel))
            IN  IF Len(w) = 2
                THEN [m EXCEPT !.ports = remove_port(@, w[2], w[1])]
                ELSE m
      [] OTHER -> m

\* the commands of cmds run one after the other
RECURSIVE RunAll(_, _)
RunAll(m, cmds) ==
    IF cmds = <<>> THEN m ELSE RunAll(Run(m, Head(cmds)), Tail(cmds))

\* what a caller may provide to record_change beside the snapshots
ProvidedInputs == {<<>>, <<CustomCmd, BoolCmd(NameA, FALSE)>>}

VARIABLES
    change_history,   \* RollbackManager.change_history, front first
    disk,             \* the file at history_path
    now,              \* Utc::now().timestamp_millis()
    pc,               \* "idle"; inside the loop of rollback_to_id
                      \* "rollback_to_id" before the test of found and
                      \* "rollback_to_id_found" after it
    op,               \* the call in progress, else the last call
    arg_id,           \* argument id of that call (<<>> if it takes none)
    arg_simulation,   \* argument simulation of that call (FALSE if it
                      \* takes none)
    ret,              \* what that call returned, "running" while in progress
    entry_history,    \* change_history when that call was entered, if it is
                      \* a rollback_to_id, else <<>>
    executed,         \* the commands that call handed to sh, with outcomes
    rb_count,         \* number of rollback_last calls of that call
    disk_written,     \* whether that call reached fs::write
    save_failures,    \* number of failed saves so far
    recorded,         \* the records built by the record_change calls made
                      \* since the journal was empty, oldest first, while no
                      \* other call came between and they number at most
                      \* max_history + 1 (tracked); else NotTracked
    in_previous,      \* DiffSpec: the previous_state handed to record_change
    in_new,           \* DiffSpec: the new_state handed to record_change
    in_provided,      \* DiffSpec: the provided_rollback_commands handed to it
    generated,        \* DiffSpec: what generate_rollback_commands returned
    system,           \* DiffSpec: the managers' view of the policy the
                      \* commands of a rollback act upon
    stage,            \* DiffSpec: "input", "recorded", "rolled_back";
                      \* "journal" under Spec
    loop_exit,        \* AppSpec: "running" while run_app loops, "quit" or
                      \* "error" as it returned
    status_message,   \* AppSpec: App.status_message
    simulation_mode,  \* AppSpec: App.simulation_mode
    is_busy,          \* AppSpec: App.is_busy
    task,             \* AppSpec: the thread of spawn_task and what its
                      \* closure owns
    channel,          \* AppSpec: the TaskResults sent and not yet received
    managers,         \* AppSpec: the lists of the App's managers
    before,           \* AppSpec: the snapshot of the policy when the last
                      \* task was spawned
    worker_journal,   \* AppSpec: whether a thread of spawn_task has run a
                      \* journal operation
    worker_wrote,     \* AppSpec: whether such a thread has written the
                      \* history file
    threads,          \* AppSpec: the number of threads of spawn_task that
                      \* have not ended
    task_rx           \* AppSpec: whether App.task_rx holds a receiver

vars == <<change_history, disk, now, pc, op, arg_id, arg_simulation, ret,
          entry_history, executed, rb_count, disk_written, save_failures,
          recorded, in_previous, in_new, in_provided, generated, system,
          stage, loop_exit, status_message, simulation_mode, is_busy, task,
          channel, managers, before, worker_journal, worker_wrote,
          threads, task_rx>>

diff_vars == <<in_previous, in_new, in_provided, generated, system, stage>>

app_vars == <<loop_exit, status_message, simulation_mode, is_busy, task,
              channel, managers, before, worker_journal, worker_wrote,
              threads, task_rx>>

\* no thread of spawn_task is running
NoTask ==
    [kind |-> "none", pc |-> "none", action |-> <<>>, name |-> <<>>,
     new_val |-> FALSE, journal |-> <<>>, id |-> <<>>]

\* App.status_message is None
NoStatus == [text |-> "none", detail |-> <<>>]

\* the App's variables where no App runs
NoApp ==
    /\ loop_exit = "running"
    /\ status_message = NoStatus
    /\ simulation_mode = FALSE
    /\ is_busy = FALSE
    /\ task = NoTask
    /\ channel = <<>>
    /\ managers = NoManagers
    /\ before = SnapA
    /\ worker_journal = FALSE
    /\ worker_wrote = FALSE
    /\ threads = 0
    /\ task_rx = FALSE

NotTracked == [tracked |-> FALSE, records |-> <<>>]
Tracked(records) == [tracked |-> TRUE, records |-> records]

\* recorded after a call other than record_change that leaves history h
Untrack(h) == IF h = <<>> THEN Tracked(<<>>) ELSE NotTracked

\* recorded after a record_change that built record
Track(record) ==
    IF recorded.tracked /\ Len(recorded.records) <= MaxHistory
    THEN Tracked(Append(recorded.records, record))
    ELSE NotTracked

Missing == [kind |-> "missing"]
Blank == [kind |-> "blank"]
Corrupt == [kind |-> "corrupt"]
Stored(list) == [kind |-> "list", list |-> list]

(***************************************************************************)
(* Persistence.                                                            *)
(***************************************************************************)
\* load_history_from_disk without the test that the file exists
load_history_from_disk_reads_missing(h, d) ==
    CASE d.kind = "missing" -> [history |-> h, result |-> "ReadError"]
      [] d.kind = "blank" -> [history |-> h, result |-> "Ok"]
      [] d.kind = "corrupt" -> [history |-> h, result |-> "ParseError"]
      [] d.kind = "list" -> [history |-> d.list, result |-> "Ok"]

\* load_history_from_disk: the history after the call and its result
load_history_from_disk(h, d) ==
    CASE d.kind = "missing" -> [history |-> h, result |-> "Ok"]
      [] d.kind = "blank" -> [history |-> h, result |-> "Ok"]
      [] d.kind = "corrupt" -> [history |-> h, result |-> "ParseError"]
      [] d.kind = "list" -> [history |-> d.list, result |-> "Ok"]

\* save_history_to_disk that collects the records back to front
save_history_to_disk_back_to_front(h, d, out) ==
    CASE out = "ok" -> Stored([i \in 1..Len(h) |-> h[Len(h) + 1 - i]])
      [] out = "partial" -> Corrupt

\* save_history_to_disk: the file after the call
save_history_to_disk(h, d, out) ==
    CASE out = "ok" -> Stored(h)
      [] out = "partial" -> Corrupt

SaveResult(out) == IF out = "ok" THEN "Ok" ELSE "SaveError"

\* one call of save_history_to_disk by the action
Save(h, out) ==
    /\ out # "ok" => save_failures < MaxSaveFailures
    /\ disk' = save_history_to_disk(h, disk, out)
    /\ save_failures' = IF out = "ok" THEN save_failures ELSE save_failures + 1
    /\ disk_written' = TRUE

(***************************************************************************)
(* The journal.                                                            *)
(***************************************************************************)
\* trim_history with the loop test off by one
RECURSIVE trim_history_off_by_one(_)
trim_history_off_by_one(h) ==
    IF Len(h) > max_history + 1
    THEN trim_history_off_by_one(SubSeq(h, 1, Len(h) - 1))
    ELSE h

\* trim_history with pop_front in place of pop_back
RECURSIVE trim_history_pop_front(_)
trim_history_pop_front(h) ==
    IF Len(h) > max_history
    THEN trim_history_pop_front(Tail(h))
    ELSE h

RECURSIVE trim_history(_)
trim_history(h) ==
    IF Len(h) > max_history
    THEN trim_history(SubSeq(h, 1, Len(h) - 1))
    ELSE h

NewRecord(t, action, description, previous_state, new_state, rollback_commands) ==
    [id |-> FmtChg \o Dec(t), timestamp |-> t, action |-> action,
     description |-> description, previous_state |-> previous_state,
     new_state |-> new_state, rollback_commands |-> rollback_commands,
     applied_commands |-> <<>>]

\* Marker with the snapshots not swapped
Marker_unswapped(t, change, applied) ==
    [id |-> FmtRollbackId \o Dec(t), timestamp |-> t, action |-> ActRollback,
     description |-> FmtRolledBack \o change.id,
     previous_state |-> change.previous_state, new_state |-> change.new_state,
     rollback_commands |-> <<>>, applied_commands |-> applied]

\* Marker whose description names the marker's own id
Marker_own_id(t, change, applied) ==
    [id |-> FmtRollbackId \o Dec(t), timestamp |-> t, action |-> ActRollback,
     description |-> FmtRolledBack \o FmtRollbackId \o Dec(t),
     previous_state |-> change.new_state, new_state |-> change.previous_state,
     rollback_commands |-> <<>>, applied_commands |-> applied]

\* the marker that keeps the commands of the record it replaces
Marker_keeps_commands(t, change, applied) ==
    [id |-> FmtRollbackId \o Dec(t), timestamp |-> t, action |-> ActRollback,
     description |-> FmtRolledBack \o change.id,
     previous_state |-> change.new_state, new_state |-> change.previous_state,
     rollback_commands |-> change.rollback_commands, applied_commands |-> applied]

Marker(t, change, applied) ==
    [id |-> FmtRollbackId \o Dec(t), timestamp |-> t, action |-> ActRollback,
     description |-> FmtRolledBack \o change.id,
     previous_state |-> change.new_state, new_state |-> change.previous_state,
     rollback_commands |-> <<>>, applied_commands |-> applied]

\* index of the first command that could not be spawned, 0 if none
RECURSIVE FirstSpawnError(_, _)
FirstSpawnError(outs, i) ==
    IF i > Len(outs) THEN 0
    ELSE IF outs[i] = "spawn_error" THEN i
    ELSE FirstSpawnError(outs, i + 1)

Ran(cmds, outs, n) == [i \in 1..n |-> [cmd |-> cmds[i], outcome |-> outs[i]]]

\* the Some branch of rollback_last that runs the commands in simulation too
rollback_popped_runs_in_simulation(change, rest, simulation, t, outs) ==
    LET cmds == change.rollback_commands
        marker == Marker(t, change, change.applied_commands \o cmds)
    IN  [result |-> "Ok",
         history |-> trim_history(<<marker>> \o rest),
         ran |-> [i \in 1..Len(cmds) |-> [cmd |-> cmds[i], outcome |-> "ok"]],
         saves |-> TRUE]

\* the Some branch of rollback_last whose marker lists the commands of this
\* call alone
rollback_popped_forgets_applied(change, rest, simulation, t, outs) ==
    LET cmds == change.rollback_commands
        f == IF simulation THEN 0 ELSE FirstSpawnError(outs, 1)
    IN  IF f > 0
        THEN [result |-> "CommandError", history |-> rest,
              ran |-> Ran(cmds, outs, f), saves |-> FALSE]
        ELSE LET applied == IF simulation THEN change.applied_commands
                            ELSE cmds
                 marker == Marker(t, change, applied)
             IN  [result |-> "Ok",
                  history |-> trim_history(<<marker>> \o rest),
                  ran |-> IF simulation THEN <<>> ELSE Ran(cmds, outs, Len(cmds)),
                  saves |-> TRUE]

\* the Some branch of rollback_last that puts the popped record back when a
\* command cannot be run
rollback_popped_restores_on_error(change, rest, simulation, t, outs) ==
    LET cmds == change.rollback_commands
        f == IF simulation THEN 0 ELSE FirstSpawnError(outs, 1)
    IN  IF f > 0
        THEN [result |-> "CommandError", history |-> <<change>> \o rest,
              ran |-> Ran(cmds, outs, f), saves |-> FALSE]
        ELSE LET applied == IF simulation THEN change.applied_commands
                            ELSE change.applied_commands \o cmds
                 marker == Marker(t, change, applied)
             IN  [result |-> "Ok",
                  history |-> trim_history(<<marker>> \o rest),
                  ran |-> IF simulation THEN <<>> ELSE Ran(cmds, outs, Len(cmds)),
                  saves |-> TRUE]

\* the Some branch of rollback_last that lists the commands as applied in
\* simulation too, where none is run
rollback_popped_applies_unrun(change, rest, simulation, t, outs) ==
    LET cmds == change.rollback_commands
        f == IF simulation THEN 0 ELSE FirstSpawnError(outs, 1)
    IN  IF f > 0
        THEN [result |-> "CommandError", history |-> rest,
              ran |-> Ran(cmds, outs, f), saves |-> FALSE]
        ELSE LET marker == Marker(t, change, change.applied_commands \o cmds)
             IN  [result |-> "Ok",
                  history |-> trim_history(<<marker>> \o rest),
                  ran |-> IF simulation THEN <<>> ELSE Ran(cmds, outs, Len(cmds)),
                  saves |-> TRUE]

\* the Some branch of rollback_last that writes the swapped snapshots into
\* the record behind the popped one too
rollback_popped_touches_next(change, rest, simulation, t, outs) ==
    LET cmds == change.rollback_commands
        f == IF simulation THEN 0 ELSE FirstSpawnError(outs, 1)
    IN  IF f > 0
        THEN [result |-> "CommandError", history |-> rest,
              ran |-> Ran(cmds, outs, f), saves |-> FALSE]
        ELSE LET applied == IF simulation THEN change.applied_commands
                            ELSE change.applied_commands \o cmds
                 marker == Marker(t, change, applied)
                 touched == IF rest = <<>> THEN rest
                            ELSE [rest EXCEPT ![1].applied_commands = applied,
                                              ![1].description = marker.description]
             IN  [result |-> "Ok",
                  history |-> trim_history(<<marker>> \o touched),
                  ran |-> IF simulation THEN <<>> ELSE Ran(cmds, outs, Len(cmds)),
                  saves |-> TRUE]

\* the Some branch of rollback_last: change is the popped front record and
\* rest what pop_front left; outs[i] is how running the i-th command ends.
\* saves tells whether save_history_to_disk is reached.
rollback_popped(change, rest, simulation, t, outs) ==
    LET cmds == change.rollback_commands
        f == IF simulation THEN 0 ELSE FirstSpawnError(outs, 1)
    IN  IF f > 0
        THEN [result |-> "CommandError", history |-> rest,
              ran |-> Ran(cmds, outs, f), saves |-> FALSE]
        ELSE LET applied == IF simulation THEN change.applied_commands
                            ELSE change.applied_commands \o cmds
                 marker == Marker(t, change, applied)
             IN  [result |-> "Ok",
                  history |-> trim_history(<<marker>> \o rest),
                  ran |-> IF simulation THEN <<>> ELSE Ran(cmds, outs, Len(cmds)),
                  saves |-> TRUE]

\* rollback_last that takes an empty history for a success
rollback_last_empty_ok(h, simulation, t, outs) ==
    IF h = <<>>
    THEN [result |-> "Ok", history |-> h, ran |-> <<>>, saves |-> TRUE]
    ELSE rollback_popped(Head(h), Tail(h), simulation, t, outs)

\* rollback_last on history h at clock reading t
rollback_last(h, simulation, t, outs) ==
    IF h = <<>>
    THEN [result |-> "NoChanges", history |-> h, ran |-> <<>>, saves |-> FALSE]
    ELSE rollback_popped(Head(h), Tail(h), simulation, t, outs)

\* the ways running the commands of the front record of h can end: every
\* command runs, or the run stops at the first that cannot be spawned
OutcomesFor(h, simulation) ==
    IF h = <<>> \/ simulation THEN {<<>>}
    ELSE LET n == Len(Head(h).rollback_commands)
         IN  [1..n -> Outcomes \ {"spawn_error"}]
             \cup UNION {{outs \in [1..k -> Outcomes] :
                            \A i \in 1..k : (outs[i] = "spawn_error") <=> (i = k)} :
                         k \in 1..n}

Bump(n) == IF n < MaxRbCount THEN n + 1 ELSE n

\* found that only looks whether there is a record
found_any_record(h, id) == h # <<>>

\* the loop's test: some record carries the id
found(h, id) == \E i \in 1..Len(h) : h[i].id = id

\* top_is_id that looks at the back record
top_is_id_back(h, id) == h # <<>> /\ h[Len(h)].id = id

\* the loop's test: the front record carries the id
top_is_id(h, id) == h # <<>> /\ Head(h).id = id

Init ==
    /\ disk \in {Missing, Blank, Corrupt}
    /\ change_history = load_history_from_disk(<<>>, disk).history
    /\ now = 1
    /\ pc = "idle"
    /\ op = "new"
    /\ arg_id = <<>>
    /\ arg_simulation = FALSE
    /\ ret = "Ok"
    /\ entry_history = <<>>
    /\ executed = <<>>
    /\ rb_count = 0
    /\ disk_written = FALSE
    /\ save_failures = 0
    /\ recorded = Tracked(<<>>)
    /\ in_previous = SnapA
    /\ in_new = SnapA
    /\ in_provided = <<>>
    /\ generated = <<>>
    /\ system = NoManagers
    /\ stage = "journal"
    /\ NoApp

\* the clock moves on
Tick ==
    /\ now < MaxClock
    /\ now' = now + 1
    /\ UNCHANGED <<change_history, disk, pc, op, arg_id, arg_simulation, ret,
                   entry_history, executed, rb_count, disk_written,
                   save_failures, recorded>>
    /\ UNCHANGED diff_vars
    /\ UNCHANGED app_vars

\* the process is started again: RollbackManager::new
New ==
    /\ change_history' = load_history_from_disk(<<>>, disk).history
    /\ pc' = "idle"
    /\ op' = "new"
    /\ arg_id' = <<>>
    /\ arg_simulation' = FALSE
    /\ ret' = "Ok"
    /\ entry_history' = <<>>
    /\ executed' = <<>>
    /\ rb_count' = 0
    /\ disk_written' = FALSE
    /\ recorded' = Untrack(change_history')
    /\ UNCHANGED <<disk, now, save_failures>>
    /\ UNCHANGED diff_vars
    /\ UNCHANGED app_vars

\* record_change that puts the new record behind the others
RecordChange_push_back(action, description, previous_state, new_state, provided, auto, out) ==
    /\ pc = "idle"
    /\ LET record == NewRecord(now, action, description, previous_state, new_state,
                               MergeCommands(provided, auto))
           h == trim_history(change_history \o <<record>>)
       IN  /\ change_history' = h
           /\ Save(h, out)
           /\ recorded' = Track(record)
    /\ op' = "record_change"
    /\ arg_id' = <<>>
    /\ arg_simulation' = FALSE
    /\ ret' = "Ok"
    /\ entry_history' = <<>>
    /\ executed' = <<>>
    /\ rb_count' = 0
    /\ UNCHANGED <<now, pc>>

RecordChange(action, description, previous_state, new_state, provided, auto, out) ==
    /\ pc = "idle"
    /\ LET record == NewRecord(now, action, description, previous_state, new_state,
                               MergeCommands(provided, auto))
           h == trim_history(<<record>> \o change_history)
       IN  /\ change_history' = h
           /\ Save(h, out)
           /\ recorded' = Track(record)
    /\ op' = "record_change"
    /\ arg_id' = <<>>
    /\ arg_simulation' = FALSE
    /\ ret' = "Ok"
    /\ entry_history' = <<>>
    /\ executed' = <<>>
    /\ rb_count' = 0
    /\ UNCHANGED <<now, pc>>

RollbackLast(simulation, outs, out) ==
    /\ pc = "idle"
    /\ LET r == rollback_last(change_history, simulation, now, outs)
       IN  /\ change_history' = r.history
           /\ ret' = r.result
           /\ executed' = r.ran
           /\ recorded' = Untrack(r.history)
           /\ IF r.saves THEN Save(r.history, out)
              ELSE /\ out = "ok"
                   /\ disk_written' = FALSE
                   /\ UNCHANGED <<disk, save_failures>>
    /\ op' = "rollback_last"
    /\ arg_id' = <<>>
    /\ arg_simulation' = simulation
    /\ entry_history' = <<>>
    /\ rb_count' = 1
    /\ UNCHANGED <<now, pc>>

\* rollback_to_id is entered
RollbackToIdCall(id, simulation) ==
    /\ pc = "idle"
    /\ pc' = "rollback_to_id"
    /\ op' = "rollback_to_id"
    /\ arg_id' = id
    /\ arg_simulation' = simulation
    /\ ret' = "running"
    /\ entry_history' = change_history
    /\ executed' = <<>>
    /\ rb_count' = 0
    /\ disk_written' = FALSE
    /\ recorded' = Untrack(change_history)
    /\ UNCHANGED <<change_history, disk, now, save_failures>>
    /\ UNCHANGED diff_vars
    /\ UNCHANGED app_vars

\* the loop of rollback_to_id tests whether a record carries the id
RollbackToIdTest ==
    /\ pc = "rollback_to_id"
    /\ IF ~found(change_history, arg_id)
       THEN ret' = "IdNotFound" /\ pc' = "idle"
       ELSE ret' = "running" /\ pc' = "rollback_to_id_found"
    /\ UNCHANGED <<change_history, disk, now, op, arg_id, arg_simulation, entry_history,
                   executed, rb_count, disk_written, save_failures, recorded>>
    /\ UNCHANGED diff_vars
    /\ UNCHANGED app_vars

\* the loop of rollback_to_id calls rollback_last: for the last time if the
\* front record carries the id
RollbackToIdRollback(outs, out) ==
    /\ pc = "rollback_to_id_found"
    /\ LET r == rollback_last(change_history, arg_simulation, now, outs)
       IN  /\ change_history' = r.history
           /\ executed' = executed \o r.ran
           /\ rb_count' = Bump(rb_count)
           /\ recorded' = Untrack(r.history)
           /\ IF r.saves THEN Save(r.history, out)
              ELSE /\ out = "ok"
                   /\ UNCHANGED <<disk, disk_written, save_failures>>
           /\ IF r.result # "Ok"
              THEN ret' = r.result /\ pc' = "idle"
              ELSE IF top_is_id(change_history, arg_id)
                   THEN ret' = "Ok" /\ pc' = "idle"
                   ELSE ret' = "running" /\ pc' = "rollback_to_id"
    /\ UNCHANGED <<now, op, arg_id, arg_simulation, entry_history>>
    /\ UNCHANGED diff_vars
    /\ UNCHANGED app_vars

\* clear_history that empties the history and leaves the file alone
ClearHistory_no_save(out) ==
    /\ pc = "idle"
    /\ out = "ok"
    /\ change_history' = <<>>
    /\ op' = "clear_history"
    /\ arg_id' = <<>>
    /\ arg_simulation' = FALSE
    /\ ret' = "Ok"
    /\ entry_history' = <<>>
    /\ executed' = <<>>
    /\ rb_count' = 0
    /\ disk_written' = FALSE
    /\ recorded' = Tracked(<<>>)
    /\ UNCHANGED <<now, pc, disk, save_failures>>

ClearHistory(out) ==
    /\ pc = "idle"
    /\ change_history' = <<>>
    /\ Save(<<>>, out)
    /\ op' = "clear_history"
    /\ arg_id' = <<>>
    /\ arg_simulation' = FALSE
    /\ ret' = SaveResult(out)
    /\ entry_history' = <<>>
    /\ executed' = <<>>
    /\ rb_count' = 0
    /\ recorded' = Tracked(<<>>)
    /\ UNCHANGED <<now, pc>>

IdsOf(h) == {h[i].id : i \in 1..Len(h)}

RecordChangeStep ==
    \E action \in Actions, description \in Descriptions,
       input \in RecordInputs, out \in SaveOutcomes :
       \E auto \in generate_rollback_commands(input[1], input[2]) :
          /\ RecordChange(action, description, input[1], input[2], input[3], auto, out)
          /\ UNCHANGED diff_vars
          /\ UNCHANGED app_vars

RollbackLastStep ==
    \E simulation \in BOOLEAN, out \in SaveOutcomes :
       \E outs \in OutcomesFor(change_history, simulation) :
          /\ RollbackLast(simulation, outs, out)
          /\ UNCHANGED diff_vars
          /\ UNCHANGED app_vars

RollbackToIdCallStep ==
    \E id \in IdsOf(change_history) \cup {AbsentId}, simulation \in BOOLEAN :
       RollbackToIdCall(id, simulation)

RollbackToIdRollbackStep ==
    \E out \in SaveOutcomes :
       \E outs \in OutcomesFor(change_history, arg_simulation) :
          RollbackToIdRollback(outs, out)

ClearHistoryStep ==
    \E out \in SaveOutcomes :
       /\ ClearHistory(out)
       /\ UNCHANGED diff_vars
       /\ UNCHANGED app_vars

Next ==
    \/ Tick
    \/ New
    \/ RecordChangeStep
    \/ RollbackLastStep
    \/ RollbackToIdCallStep
    \/ RollbackToIdTest
    \/ RollbackToIdRollbackStep
    \/ ClearHistoryStep

Spec == Init /\ [][Next]_vars

\* the loop of rollback_to_id runs on: nothing in the code suspends it
FairSpec ==
    Spec /\ WF_vars(RollbackToIdTest) /\ WF_vars(RollbackToIdRollbackStep)

TypeOK ==
    /\ now \in 1..MaxClock
    /\ pc \in {"idle", "rollback_to_id", "rollback_to_id_found"}
    /\ rb_count \in 0..MaxRbCount
    /\ save_failures \in 0..MaxSaveFailures

(***************************************************************************)
(* The bounded history.                                                    *)
(***************************************************************************)
\* C1: in every reachable state the history holds at most max_history
\* records.
C1_HistoryBounded == Len(change_history) <= max_history

\* a journal loaded from the persisted file with max_history records
C1_Witness == op = "new" /\ Len(change_history) = max_history

\* C2: after max_history + 1 record_change calls on an empty journal the
\* history is the max_history newest records, newest first; the record
\* recorded first is the one that went.
C2_FifoEviction ==
    (recorded.tracked /\ Len(recorded.records) = max_history + 1) =>
        change_history = [i \in 1..max_history |-> recorded.records[max_history + 2 - i]]

\* the call that evicts has run and the first record is not in the history
C2_Witness ==
    /\ op = "record_change"
    /\ recorded.tracked
    /\ Len(recorded.records) = max_history + 1
    /\ \A i \in 1..Len(change_history) : change_history[i] # recorded.records[1]

(***************************************************************************)
(* Errors of rollback_to_id and rollback_last.                             *)
(***************************************************************************)
\* C6: rollback_to_id with an id that no record carries returns the
\* id-not-found error at its first test, runs no command and leaves the
\* history and the persisted file as they were.
C6_AbsentIdLeavesHistory ==
    (op = "rollback_to_id" /\ arg_id \notin IdsOf(entry_history)) =>
        /\ ret \in {"running", "IdNotFound"}
        /\ change_history = entry_history
        /\ executed = <<>>
        /\ rb_count = 0
        /\ ~disk_written

C6_Witness ==
    /\ op = "rollback_to_id"
    /\ ret = "IdNotFound"
    /\ entry_history # <<>>

\* C7: rollback_last on an empty history fails with the no-changes error in
\* either mode, pushes no marker and does not touch the persisted file.
C7_EmptyHistoryNoChanges ==
    [][(change_history = <<>> /\ RollbackLastStep) =>
          /\ ret' = "NoChanges"
          /\ change_history' = <<>>
          /\ executed' = <<>>
          /\ disk' = disk
          /\ ~disk_written']_vars

C7_Witness ==
    op = "rollback_last" /\ ret = "NoChanges" /\ change_history = <<>>

\* C8: a successful rollback_last, simulated or not, replaces the front
\* record R by a marker whose previous_state is R.new_state, whose new_state
\* is R.previous_state and whose rollback_commands is empty.
C8_MarkerSwapsSnapshots ==
    [][(RollbackLastStep /\ ret' = "Ok") =>
          /\ change_history # <<>>
          /\ change_history' # <<>>
          /\ Tail(change_history') = Tail(change_history)
          /\ Head(change_history').action = ActRollback
          /\ Head(change_history').previous_state = Head(change_history).new_state
          /\ Head(change_history').new_state = Head(change_history).previous_state
          /\ Head(change_history').rollback_commands = <<>>]_vars

\* a rollback that ran commands left a marker with swapped, different
\* snapshots
C8_Witness ==
    /\ op = "rollback_last"
    /\ ret = "Ok"
    /\ executed # <<>>
    /\ Head(change_history).action = ActRollback
    /\ Head(change_history).previous_state # Head(change_history).new_state

(***************************************************************************)
(* The cascade of rollback_to_id.                                          *)
(***************************************************************************)
\* position from the front of the first record of h that carries id, 0 if
\* none does
Position(h, id) ==
    IF id \in IdsOf(h)
    THEN CHOOSE i \in 1..Len(h) : h[i].id = id /\ \A j \in 1..(i - 1) : h[j].id # id
    ELSE 0

CmdsOf(log) == [i \in DOMAIN log |-> log[i].cmd]

\* the rollback_commands of the records of h from the front down to the
\* first that carries id, in that order
CascadeCommands(h, id) ==
    Concat([i \in 1..Position(h, id) |-> h[i].rollback_commands])

IsPrefix(s, t) == Len(s) <= Len(t) /\ s = SubSeq(t, 1, Len(s))

\* a rollback_to_id whose id some record carried when it was entered
TargetPresent == op = "rollback_to_id" /\ arg_id \in IdsOf(entry_history)

\* C3: rollback_to_id with an id present in the history returns.
C3_Terminates == (pc # "idle" /\ TargetPresent) ~> (pc = "idle")

\* C4: rollback_to_id with the id of the K-th record from the front makes
\* exactly K rollback_last calls: fewer than K while it runs, K when it has
\* returned Ok.
C4_ExactlyKRollbacks ==
    TargetPresent =>
        /\ ret = "running" => rb_count < Position(entry_history, arg_id)
        /\ ret = "Ok" => rb_count = Position(entry_history, arg_id)

\* C5: a non-simulated rollback_to_id runs the commands of the records from
\* the front down to the target, newest record first, and no other command;
\* it runs them all unless a command cannot be run.
C5_CascadeRunsCommands ==
    /\ [](TargetPresent /\ ~arg_simulation =>
             IsPrefix(CmdsOf(executed), CascadeCommands(entry_history, arg_id)))
    /\ (pc # "idle" /\ TargetPresent /\ ~arg_simulation) ~>
          (ret = "CommandError"
             \/ CmdsOf(executed) = CascadeCommands(entry_history, arg_id))

(***************************************************************************)
(* Failing commands.                                                       *)
(***************************************************************************)
\* C9: in a non-simulated rollback_last a command that exits nonzero or
\* cannot be spawned is the last one run, and the call returns an error.
C9_FailureAborts ==
    (op = "rollback_last" /\ ~arg_simulation) =>
        \A i \in 1..Len(executed) :
            executed[i].outcome # "ok" =>
                i = Len(executed) /\ ret = "CommandError"

\* the records of the in-memory history and of the persisted file
JournalRecords ==
    Range(change_history) \cup (IF disk.kind = "list" THEN Range(disk.list) ELSE {})

\* C10: when a command fails after others ran, some record of the journal
\* lists the commands that ran in its applied_commands.
C10_AppliedCommandsKept ==
    (op = "rollback_last" /\ ret = "CommandError" /\ Len(executed) > 1) =>
        \E r \in JournalRecords :
            r.applied_commands = CmdsOf(SubSeq(executed, 1, Len(executed) - 1))

(***************************************************************************)
(* The diff engine on its own: record_change is handed two snapshots of    *)
(* the managers and, right after, rollback_last runs the commands of the   *)
(* record on the policy the new snapshot was taken of.                     *)
(***************************************************************************)
DiffInit ==
    /\ disk = Missing
    /\ change_history = load_history_from_disk(<<>>, disk).history
    /\ now = 1
    /\ pc = "idle"
    /\ op = "new"
    /\ arg_id = <<>>
    /\ arg_simulation = FALSE
    /\ ret = "Ok"
    /\ entry_history = <<>>
    /\ executed = <<>>
    /\ rb_count = 0
    /\ disk_written = FALSE
    /\ save_failures = 0
    /\ recorded = Tracked(<<>>)
    /\ \E p \in Managers, n \in Managers :
          /\ in_previous = get_current_system_state(p)
          /\ in_new = get_current_system_state(n)
          /\ system = n
    /\ in_provided = <<>>
    /\ generated = <<>>
    /\ stage = "input"
    /\ NoApp

\* record_change(action, description, in_previous, in_new, provided)
DiffRecordChange ==
    /\ stage = "input"
    /\ \E action \in Actions, description \in Descriptions,
          provided \in ProvidedInputs :
          \E auto \in generate_rollback_commands(in_previous, in_new) :
             /\ RecordChange(action, description, in_previous, in_new,
                             provided, auto, "ok")
             /\ in_provided' = provided
             /\ generated' = auto
    /\ stage' = "recorded"
    /\ UNCHANGED <<in_previous, in_new, system>>
    /\ UNCHANGED app_vars

\* rollback_last(false) right after, every command exiting with status 0
DiffRollbackLast ==
    /\ stage = "recorded"
    /\ \E outs \in [1..Len(Head(change_history).rollback_commands) -> {"ok"}] :
          RollbackLast(FALSE, outs, "ok")
    /\ system' = RunAll(system, CmdsOf(executed'))
    /\ stage' = "rolled_back"
    /\ UNCHANGED <<in_previous, in_new, in_provided, generated>>
    /\ UNCHANGED app_vars

DiffNext == DiffRecordChange \/ DiffRollbackLast

DiffSpec == DiffInit /\ [][DiffNext]_vars

(***************************************************************************)
(* Rollback as the inverse of the recorded change.                         *)
(***************************************************************************)
\* the four domains of snapshots a and b are equal: booleans and modules
\* entry by entry, the rules as sets
SameDomains(a, b) ==
    /\ a.booleans = b.booleans
    /\ a.modules = b.modules
    /\ Range(a.file_contexts) = Range(b.file_contexts)
    /\ Range(a.ports) = Range(b.ports)

\* C11: record_change(P, N, no explicit commands) followed at once by a
\* non-simulated rollback_last, whose commands run in order on a system in
\* state N, leaves booleans, modules, file-context rules and port rules as
\* they are in P.
C11_RollbackRestoresPrevious ==
    (stage = "rolled_back" /\ in_provided = <<>>) =>
        SameDomains(get_current_system_state(system), in_previous)

(***************************************************************************)
(* Records without commands.                                               *)
(***************************************************************************)
\* the entries of list_a and list_b of one name agree on field
SameValues(list_a, list_b, field) ==
    \A i \in DOMAIN list_a, j \in DOMAIN list_b :
        list_a[i].name = list_b[j].name => list_a[i][field] = list_b[j][field]

\* C12 as stated: every record of the history has empty rollback_commands
\* only if booleans, modules, file-context rules and port rules are the
\* same in its previous_state and its new_state.
C12_EmptyOnlyIfIdentical ==
    \A i \in 1..Len(change_history) :
        change_history[i].rollback_commands = <<>> =>
            SameDomains(change_history[i].previous_state, change_history[i].new_state)

\* C12 amended: a record built by record_change from snapshots of the
\* managers has empty rollback_commands only if every boolean and every
\* module named in both snapshots has the same value in both and the
\* file-context rules and the port rules are the same sets in both.
C12_EmptyOnlyIfNothingToUndo ==
    (stage = "recorded" /\ Head(change_history).rollback_commands = <<>>) =>
        LET P == Head(change_history).previous_state
            N == Head(change_history).new_state
        IN  /\ SameValues(P.booleans, N.booleans, "current_value")
            /\ SameValues(P.modules, N.modules, "enabled")
            /\ Range(P.file_contexts) = Range(N.file_contexts)
            /\ Range(P.ports) = Range(N.ports)

\* a record without commands whose snapshots differ all the same
C12_Witness ==
    /\ stage = "recorded"
    /\ Head(change_history).rollback_commands = <<>>
    /\ ~SameDomains(Head(change_history).previous_state,
                    Head(change_history).new_state)

(***************************************************************************)
(* The merge of record_change.                                             *)
(***************************************************************************)
\* the commands of auto that are neither among provided nor earlier in
\* auto, in the order of auto
KeptOf(provided, auto) ==
    LET kept == SelectSeq([i \in 1..Len(auto) |-> i],
                          LAMBDA i : /\ auto[i] \notin Range(provided)
                                     /\ \A j \in 1..(i - 1) : auto[j] # auto[i])
    IN  [k \in DOMAIN kept |-> auto[kept[k]]]

\* C13: the rollback_commands of a record built by record_change is the
\* provided commands, verbatim and in order, followed by the generated
\* commands that equal no command already in the list, in generation order.
C13_MergePolicy ==
    stage = "recorded" =>
        Head(change_history).rollback_commands
            = in_provided \o KeptOf(in_provided, generated)

\* a merge that dropped a generated command and kept another
C13_Witness ==
    /\ stage = "recorded"
    /\ in_provided # <<>>
    /\ Len(Head(change_history).rollback_commands) > Len(in_provided)
    /\ Len(Head(change_history).rollback_commands)
          < Len(in_provided) + Len(generated)

(***************************************************************************)
(* The diff engine.                                                        *)
(***************************************************************************)
\* C14: for any snapshot P the diff engine applied to (P, P) returns the
\* empty command sequence.
C14_DiffOfEqualIsEmpty ==
    (stage # "input" /\ in_previous = in_new) => generated = <<>>

\* the diff of a snapshot that holds booleans, a module and rules with
\* itself
C14_Witness ==
    /\ stage = "recorded"
    /\ in_previous = in_new
    /\ Len(in_previous.booleans) = MaxBoolNames
    /\ in_previous.modules # <<>>
    /\ in_previous.file_contexts # <<>>
    /\ in_previous.ports # <<>>
    /\ generated = <<>>

\* N is P but for the current_value of its i-th boolean
DiffersInBoolean(P, N, i) ==
    /\ N.booleans = [P.booleans EXCEPT ![i].current_value = ~@]
    /\ N.modules = P.modules
    /\ N.file_contexts = P.file_contexts
    /\ N.ports = P.ports

\* C15: if P and N differ in the current value of exactly one boolean and
\* in nothing else, the diff engine returns exactly one command, which sets
\* that boolean to its value in P.
C15_OneBooleanOneCommand ==
    stage # "input" =>
        \A i \in DOMAIN in_previous.booleans :
            DiffersInBoolean(in_previous, in_new, i) =>
                generated =
                    << FmtSetsebool \o in_previous.booleans[i].name \o Space
                         \o (IF in_previous.booleans[i].current_value
                             THEN FmtOn ELSE FmtOff) >>

\* one of two booleans changed and one command was generated
C15_Witness ==
    /\ stage = "recorded"
    /\ Len(in_previous.booleans) = 2
    /\ DiffersInBoolean(in_previous, in_new, 2)
    /\ in_previous.booleans[2].current_value
    /\ Len(generated) = 1

\* the file-context entries and the port entries the managers can hold
AllFileContexts == UNION {Range(l) : l \in ContextLists}
AllPortContexts == UNION {Range(l) : l \in PortLists}

\* N is P but for the file-context rule, which only N holds
OnlyFcRuleAdded(P, N, rule) ==
    /\ rule \notin Range(P.file_contexts)
    /\ Range(N.file_contexts) = Range(P.file_contexts) \cup {rule}
    /\ N.booleans = P.booleans
    /\ N.modules = P.modules
    /\ N.ports = P.ports

\* N is P but for the port rule, which only N holds
OnlyPortRuleAdded(P, N, rule) ==
    /\ rule \notin Range(P.ports)
    /\ Range(N.ports) = Range(P.ports) \cup {rule}
    /\ N.booleans = P.booleans
    /\ N.modules = P.modules
    /\ N.file_contexts = P.file_contexts

\* C16: if N differs from P only by one file-context rule that N holds and
\* P lacks, the diff engine returns exactly one delete command for the
\* rule's path and no restorecon command; a port rule only N holds yields
\* exactly one port delete command.
C16_AddedRuleOneDelete ==
    stage # "input" =>
        /\ \A c \in AllFileContexts :
              OnlyFcRuleAdded(in_previous, in_new, FcRule(c)) =>
                  generated = << FmtFcontextDel \o c.path >>
        /\ \A p \in AllPortContexts :
              OnlyPortRuleAdded(in_previous, in_new, PortRule(p)) =>
                  generated = << FmtPortDel \o p.protocol \o Space \o p.port >>

\* a file-context rule was added and one command was generated
C16_Witness ==
    /\ stage = "recorded"
    /\ \E c \in AllFileContexts :
          OnlyFcRuleAdded(in_previous, in_new, FcRule(c))
    /\ in_previous.booleans # <<>>
    /\ Len(generated) = 1

\* positions of cmd in cmds
PositionsOf(cmds, cmd) == {i \in DOMAIN cmds : cmds[i] = cmd}

\* C17: for every file-context rule P holds and N lacks the diff engine
\* emits a re-add command with the rule's label and path, followed at once
\* by a restorecon command for the path; for every port rule P holds and N
\* lacks it emits exactly one re-add command, and no restorecon command.
C17_RemovedRuleReadded ==
    stage # "input" =>
        /\ \A c \in AllFileContexts :
              (FcRule(c) \in Range(in_previous.file_contexts)
                              \ Range(in_new.file_contexts)) =>
                  \E i \in 1..(Len(generated) - 1) :
                      /\ generated[i] = FmtFcontextAdd \o c.context \o Space \o c.path
                      /\ generated[i + 1] = FmtRestorecon \o c.path
        /\ \A p \in AllPortContexts :
              (PortRule(p) \in Range(in_previous.ports) \ Range(in_new.ports)) =>
                  Cardinality(PositionsOf(generated,
                      FmtPortAdd \o p.context \o FmtDashP \o p.protocol
                          \o Space \o p.port)) = 1
        /\ \A i \in DOMAIN generated :
              StartsWith(generated[i], FmtRestorecon) =>
                  i > 1 /\ StartsWith(generated[i - 1], FmtFcontextAdd)

\* a file-context rule and a port rule were removed
C17_Witness ==
    /\ stage = "recorded"
    /\ Range(in_previous.ports) \ Range(in_new.ports) # {}
    /\ Range(in_previous.file_contexts) \ Range(in_new.file_contexts) # {}
    /\ in_new.file_contexts = <<>>
    /\ Len(generated) >= 3

\* the section of the diff engine a command comes from, by its text:
\* 1 booleans, 2 modules, 3 file contexts, 4 ports, 0 none
Section(cmd) ==
    CASE StartsWith(cmd, FmtSetsebool) -> 1
      [] StartsWith(cmd, FmtSemoduleE) \/ StartsWith(cmd, FmtSemoduleD) -> 2
      [] \/ StartsWith(cmd, FmtFcontextAdd)
         \/ StartsWith(cmd, FmtFcontextDel)
         \/ StartsWith(cmd, FmtRestorecon) -> 3
      [] StartsWith(cmd, FmtPortAdd) \/ StartsWith(cmd, FmtPortDel) -> 4
      [] OTHER -> 0

\* C18: in the sequence the diff engine returns all boolean commands come
\* before all module commands, these before all file-context commands, and
\* these before all port commands.
C18_SectionsInOrder ==
    stage # "input" =>
        /\ \A i \in DOMAIN generated : Section(generated[i]) \in 1..4
        /\ \A i, j \in DOMAIN generated :
              i < j => Section(generated[i]) <= Section(generated[j])

\* a diff with commands of all four sections
C18_Witness ==
    /\ stage = "recorded"
    /\ {Section(generated[i]) : i \in DOMAIN generated} = 1..4

NamesOf(list) == {list[i].name : i \in DOMAIN list}

\* the names both lists hold with different values of field
DifferingNames(list_a, list_b, field) ==
    {n \in NamesOf(list_a) \cap NamesOf(list_b) :
        \E i \in DOMAIN list_a, j \in DOMAIN list_b :
            /\ list_a[i].name = n
            /\ list_b[j].name = n
            /\ list_a[i][field] # list_b[j][field]}

\* the booleans the setsebool commands of cmds name
BooleansNamedIn(cmds) ==
    {Words(After(cmds[i], FmtSetsebool))[1] :
        i \in {k \in DOMAIN cmds : StartsWith(cmds[k], FmtSetsebool)}}

\* the modules the semodule commands of cmds name
ModulesNamedIn(cmds) ==
    {After(cmds[i], FmtSemoduleE) :
        i \in {k \in DOMAIN cmds : StartsWith(cmds[k], FmtSemoduleE)}}
    \cup
    {After(cmds[i], FmtSemoduleD) :
        i \in {k \in DOMAIN cmds : StartsWith(cmds[k], FmtSemoduleD)}}

\* C19: the diff has a command for a boolean or module exactly when its
\* name is in both snapshots with different values; a name that only one
\* snapshot holds gets no command.
C19_OneSidedNamesIgnored ==
    stage # "input" =>
        /\ BooleansNamedIn(generated)
              = DifferingNames(in_previous.booleans, in_new.booleans, "current_value")
        /\ ModulesNamedIn(generated)
              = DifferingNames(in_previous.modules, in_new.modules, "enabled")

\* a boolean only previous_state names, a module only new_state names, and
\* a command for another boolean
C19_Witness ==
    /\ stage = "recorded"
    /\ NamesOf(in_previous.booleans) \ NamesOf(in_new.booleans) # {}
    /\ NamesOf(in_new.modules) \ NamesOf(in_previous.modules) # {}
    /\ BooleansNamedIn(generated) # {}

(***************************************************************************)
(* Ids.                                                                    *)
(***************************************************************************)
\* C20: in every reachable state the records of the history, change
\* records and markers alike, carry pairwise distinct ids, also when the
\* calls that built them fall into one millisecond of the clock.
C20_IdsDistinct ==
    \A i, j \in 1..Len(change_history) :
        i # j => change_history[i].id # change_history[j].id

(***************************************************************************)
(* The persisted file.                                                     *)
(***************************************************************************)
\* C21: after a record_change, a successful rollback_last or a
\* clear_history whose save succeeds (a failed write leaves a part of the
\* data, Corrupt), the persisted file holds the
\* in-memory history, and loading it yields the same records in the same
\* order, front first.
C21_SavedIsLoadedBack ==
    (/\ op \in {"record_change", "rollback_last", "clear_history"}
     /\ ret = "Ok"
     /\ disk_written
     /\ disk # Corrupt) =>
        /\ disk = Stored(change_history)
        /\ load_history_from_disk(<<>>, disk)
              = [history |-> change_history, result |-> "Ok"]

\* a saved history of two different records
C21_Witness ==
    /\ op \in {"record_change", "rollback_last"}
    /\ ret = "Ok"
    /\ Len(change_history) = 2
    /\ change_history[1] # change_history[2]
    /\ disk = Stored(change_history)

\* C22 as stated: loading yields an empty history when the file does not
\* exist, and when the file is malformed the error reaches the caller that
\* constructs the journal.
C22_LoadErrorSurfaced ==
    op = "new" =>
        /\ disk = Missing => change_history = <<>> /\ ret = "Ok"
        /\ disk = Corrupt => ret # "Ok"

\* C22 amended: load_history_from_disk leaves the history empty and returns
\* Ok when the file does not exist, and returns the parse error when the
\* file is malformed; RollbackManager::new drops that error and hands its
\* caller a journal with an empty history.
C22_LoadErrorDropped ==
    op = "new" =>
        /\ disk = Missing =>
              /\ load_history_from_disk(<<>>, disk).result = "Ok"
              /\ change_history = <<>> /\ ret = "Ok"
        /\ disk = Corrupt =>
              /\ load_history_from_disk(<<>>, disk).result = "ParseError"
              /\ change_history = <<>> /\ ret = "Ok"

\* a journal constructed over a file that a failed write left malformed
C22_Witness ==
    op = "new" /\ disk = Corrupt /\ save_failures > 0 /\ change_history = <<>>

\* C23: a failure to save is swallowed: record_change, rollback_last and
\* clear_history return no error because persisting failed, and the
\* in-memory history reflects the operation.
C23_SaveFailureSwallowed ==
    op \in {"record_change", "rollback_last", "clear_history"} =>
        /\ ret # "SaveError"
        /\ op = "clear_history" => change_history = <<>>

\* C24: clear_history, from any history, leaves the in-memory history
\* empty and, its write succeeding, the persisted file holding an empty
\* list.
C24_ClearEmptiesBoth ==
    [][(ClearHistoryStep /\ disk' # Corrupt) =>
          /\ change_history' = <<>>
          /\ disk' = Stored(<<>>)
          /\ load_history_from_disk(<<>>, disk').history = <<>>]_vars

\* a cleared journal whose file holds the empty list
C24_Witness ==
    /\ op = "clear_history"
    /\ ret = "Ok"
    /\ change_history = <<>>
    /\ disk = Stored(<<>>)

(***************************************************************************)
(* Simulation mode and the boolean scenario.                               *)
(***************************************************************************)
\* C28: rollback_last in simulation mode hands no command to sh, and still
\* pops the front record and pushes the marker.
C28_SimulationRunsNothing ==
    [][(RollbackLastStep /\ arg_simulation' /\ change_history # <<>>) =>
          /\ executed' = <<>>
          /\ ret' = "Ok"
          /\ change_history' # <<>>
          /\ Tail(change_history') = Tail(change_history)
          /\ Head(change_history').action = ActRollback
          /\ Head(change_history').description
                = FmtRolledBack \o Head(change_history).id
          /\ Head(change_history').applied_commands
                = Head(change_history).applied_commands]_vars

\* a simulated rollback of a record that had commands
C28_Witness ==
    /\ op = "rollback_last"
    /\ arg_simulation
    /\ ret = "Ok"
    /\ executed = <<>>
    /\ Head(change_history).action = ActRollback
    /\ Head(change_history).previous_state = SnapB
    /\ Head(change_history).new_state = SnapA

\* C29: when a record was built, with no explicit commands, from snapshots
\* in which a boolean went from false to true, a non-simulated
\* rollback_last right after runs the command that sets the boolean to
\* off, and the marker it leaves at the front names the id of that record.
C29_BooleanScenario ==
    [][(DiffRollbackLast /\ in_provided = <<>>) =>
          \A i \in DOMAIN in_previous.booleans, j \in DOMAIN in_new.booleans :
              (/\ in_previous.booleans[i].name = in_new.booleans[j].name
               /\ ~in_previous.booleans[i].current_value
               /\ in_new.booleans[j].current_value) =>
                  /\ \E k \in DOMAIN executed' :
                        executed'[k].cmd = FmtSetsebool \o in_new.booleans[j].name
                                              \o Space \o FmtOff
                  /\ Head(change_history').action = ActRollback
                  /\ Head(change_history').description
                        = FmtRolledBack \o Head(change_history).id]_vars

\* the scenario: one boolean went from false to true, nothing else changed,
\* the rollback ran one command and set it back
C29_Witness ==
    /\ stage = "rolled_back"
    /\ in_provided = <<>>
    /\ \E i \in DOMAIN in_previous.booleans :
          /\ DiffersInBoolean(in_previous, in_new, i)
          /\ ~in_previous.booleans[i].current_value
    /\ Len(executed) = 1
    /\ system.booleans = in_previous.booleans
    /\ Head(change_history).action = ActRollback

(***************************************************************************)
(* The application: the control loop of run_app, that owns the journal,    *)
(* and the thread of spawn_task.                                           *)
(***************************************************************************)
FmtSettingBoolean ==
    <<"S","e","t","t","i","n","g"," ","b","o","o","l","e","a","n"," ">>
FmtDots == <<".",".",".">>
FmtSet == <<"S","e","t"," ">>
FmtTo == <<" ","t","o"," ">>
FmtRollingBackTo ==
    <<"R","o","l","l","i","n","g"," ","b","a","c","k"," ","t","o"," ">>
FmtRolledBackTo == <<"R","o","l","l","e","d"," ","b","a","c","k"," ","t","o"," ">>
FmtOperationFailed ==
    <<"O","p","e","r","a","t","i","o","n"," ","f","a","i","l","e","d">>

\* a bool as format!("{}") writes it
FmtBool(v) == IF v THEN <<"t","r","u","e">> ELSE <<"f","a","l","s","e">>

\* the lists App::load_simulation_data gives the managers
SimulationData ==
    [booleans |-> <<BooleanState(NameA, FALSE), BooleanState(NameB, TRUE)>>,
     modules |-> <<SELinuxModule(NameM, TRUE), SELinuxModule(NameC, TRUE)>>,
     contexts |-> <<FileContext(PathP, TypeT)>>,
     ports |-> <<PortContext(Port8, ProtoTcp, TypeH)>>]

\* the policy of the host as the application starts
HostPolicies ==
    {[NoManagers EXCEPT !.booleans = <<BooleanState(NameB, v)>>] : v \in BOOLEAN}

\* App::refresh_data: the managers' lists after the call, policy being what
\* the tools report
refresh_data(simulation, policy) ==
    IF simulation THEN SimulationData ELSE policy

\* what a forward change acts on: the host's policy, or the managers' lists
\* in simulation mode
PolicySurface == IF simulation_mode THEN managers ELSE system

Status(text, detail) == [text |-> text, detail |-> detail]

TaskResult(action, description, rollback_commands, error) ==
    [action |-> action, description |-> description,
     rollback_commands |-> rollback_commands, error |-> error]

\* what the closure of a task returns
TaskOk(desc, rollback) == [ok |-> TRUE, desc |-> desc, rollback |-> rollback, err |-> "none"]
TaskErr(e) == [ok |-> FALSE, desc |-> <<>>, rollback |-> <<>>, err |-> e]

\* the thread of spawn_task: the TaskResult it sends for what the task
\* returned
Outcome(action_name, result) ==
    IF result.ok
    THEN TaskResult(action_name, result.desc, result.rollback, "none")
    ELSE TaskResult(action_name, FmtOperationFailed, <<>>, result.err)

\* the thread and what its closure owns
Thread(kind, at, action_name, name, new_val, journal, id) ==
    [kind |-> kind, pc |-> at, action |-> action_name, name |-> name,
     new_val |-> new_val, journal |-> journal, id |-> id]

\* the commands of a run that exited with status 0
Effective(ran) == CmdsOf(SelectSeq(ran, LAMBDA e : e.outcome = "ok"))

journal_vars == <<change_history, disk, pc, op, arg_id, arg_simulation, ret,
                  entry_history, executed, rb_count, disk_written,
                  save_failures, recorded>>

diff_inputs == <<in_previous, in_new, in_provided, generated, stage>>

\* App::new, before run_app
AppInit ==
    /\ disk \in {Missing, Blank, Corrupt}
    /\ change_history = load_history_from_disk(<<>>, disk).history
    /\ now = 1
    /\ pc = "idle"
    /\ op = "new"
    /\ arg_id = <<>>
    /\ arg_simulation = FALSE
    /\ ret = "Ok"
    /\ entry_history = <<>>
    /\ executed = <<>>
    /\ rb_count = 0
    /\ disk_written = FALSE
    /\ save_failures = 0
    /\ recorded = Tracked(<<>>)
    /\ in_previous = SnapA
    /\ in_new = SnapA
    /\ in_provided = <<>>
    /\ generated = <<>>
    /\ stage = "app"
    /\ system \in HostPolicies
    /\ simulation_mode \in BOOLEAN
    /\ managers = refresh_data(simulation_mode, system)
    /\ loop_exit = "running"
    /\ status_message = NoStatus
    /\ is_busy = FALSE
    /\ task = NoTask
    /\ channel = <<>>
    /\ before = get_current_system_state(managers)
    /\ worker_journal = FALSE
    /\ worker_wrote = FALSE
    /\ threads = 0
    /\ task_rx = FALSE

\* time passes
AppClock ==
    /\ loop_exit = "running"
    /\ now < MaxClock
    /\ now' = now + 1
    /\ UNCHANGED journal_vars
    /\ UNCHANGED <<diff_inputs, system>>
    /\ UNCHANGED app_vars

\* App::spawn_task
spawn_task(thread) ==
    IF is_busy
    THEN UNCHANGED <<is_busy, task_rx, channel, task, before, threads>>
    ELSE /\ is_busy' = TRUE
         /\ task_rx' = TRUE
         /\ channel' = <<>>
         /\ task' = thread
         /\ before' = get_current_system_state(PolicySurface)
         /\ threads' = threads + 1

\* Enter on the i-th boolean of the boolean view
KeyEnterBoolean(i) ==
    /\ loop_exit = "running"
    /\ ~is_busy
    /\ i \in DOMAIN managers.booleans
    /\ LET b == managers.booleans[i]
       IN  spawn_task(Thread("boolean", "run",
                             FmtSettingBoolean \o b.name \o FmtDots,
                             b.name, ~b.current_value, <<>>, <<>>))
    /\ UNCHANGED journal_vars
    /\ UNCHANGED <<now, diff_inputs, system>>
    /\ UNCHANGED <<loop_exit, status_message, simulation_mode, managers,
                   worker_journal, worker_wrote>>

\* Enter on the i-th record of the rollback history view
KeyEnterRollback(i) ==
    /\ loop_exit = "running"
    /\ ~is_busy
    /\ i \in DOMAIN change_history
    /\ LET change_id == change_history[i].id
       IN  spawn_task(Thread("rollback", "test",
                             FmtRollingBackTo \o change_id \o FmtDots,
                             <<>>, FALSE, change_history, change_id))
    /\ UNCHANGED journal_vars
    /\ UNCHANGED <<now, diff_inputs, system>>
    /\ UNCHANGED <<loop_exit, status_message, simulation_mode, managers,
                   worker_journal, worker_wrote>>

\* the thread sends what its task returned and ends
Send(result) ==
    /\ channel' = Append(channel, Outcome(task.action, result))
    /\ task' = [NoTask EXCEPT !.kind = task.kind, !.pc = "done"]
    /\ threads' = threads - 1

\* the thread of a boolean task: set_boolean on its copy of the manager,
\* then the undo command
WorkerSetBoolean(outcome) ==
    /\ loop_exit = "running"
    /\ task.kind = "boolean"
    /\ task.pc = "run"
    /\ simulation_mode => outcome = "ok"
    /\ system' = IF ~simulation_mode /\ outcome = "ok"
                 THEN [system EXCEPT
                         !.booleans = set_boolean(@, task.name, task.new_val)]
                 ELSE system
    /\ IF outcome = "spawn_error"
       THEN Send(TaskErr("CommandError"))
       ELSE Send(TaskOk(FmtSet \o task.name \o FmtTo \o FmtBool(task.new_val),
                        <<BoolCmd(task.name, ~task.new_val)>>))
    /\ UNCHANGED journal_vars
    /\ UNCHANGED <<now, diff_inputs>>
    /\ UNCHANGED <<loop_exit, status_message, simulation_mode, is_busy,
                   managers, before, task_rx, worker_journal, worker_wrote>>

\* the thread of a rollback task: the loop of rollback_to_id on its copy of
\* the journal tests whether a record carries the id
WorkerRollbackTest ==
    /\ loop_exit = "running"
    /\ task.kind = "rollback"
    /\ task.pc = "test"
    /\ worker_journal' = TRUE
    /\ IF ~found(task.journal, task.id)
       THEN Send(TaskErr("IdNotFound"))
       ELSE /\ task' = [task EXCEPT !.pc = "found"]
            /\ UNCHANGED <<channel, threads>>
    /\ UNCHANGED journal_vars
    /\ UNCHANGED <<now, diff_inputs, system>>
    /\ UNCHANGED <<loop_exit, status_message, simulation_mode, is_busy,
                   managers, before, task_rx, worker_wrote>>

\* the thread of a rollback task: the loop calls rollback_last on its copy,
\* for the last time if the front record carries the id
WorkerRollbackLast(outs) ==
    /\ loop_exit = "running"
    /\ task.kind = "rollback"
    /\ task.pc = "found"
    /\ LET r == rollback_last(task.journal, simulation_mode, now, outs)
       IN  /\ system' = RunAll(system, Effective(r.ran))
           /\ disk' = IF r.saves THEN save_history_to_disk(r.history, disk, "ok")
                      ELSE disk
           /\ worker_wrote' = (worker_wrote \/ r.saves)
           /\ IF r.result # "Ok"
              THEN Send(TaskErr(r.result))
              ELSE IF top_is_id(task.journal, task.id)
                   THEN Send(TaskOk(FmtRolledBackTo \o task.id, <<>>))
                   ELSE /\ task' = [task EXCEPT !.pc = "test",
                                                !.journal = r.history]
                        /\ UNCHANGED <<channel, threads>>
    /\ UNCHANGED <<change_history, pc, op, arg_id, arg_simulation, ret,
                   entry_history, executed, rb_count, disk_written,
                   save_failures, recorded>>
    /\ UNCHANGED <<now, diff_inputs>>
    /\ UNCHANGED <<loop_exit, status_message, simulation_mode, is_busy,
                   managers, before, task_rx, worker_journal>>

\* key 'r' handled while a task runs too
KeyRollbackLast_while_busy(outs, out) ==
    /\ loop_exit = "running"
    /\ RollbackLast(simulation_mode, outs, out)
    /\ system' = RunAll(system, Effective(executed'))
    /\ IF ret' = "Ok"
       THEN /\ status_message' = Status("Rolled back last change", <<>>)
            /\ UNCHANGED loop_exit
       ELSE /\ loop_exit' = "error"
            /\ UNCHANGED status_message
    /\ UNCHANGED diff_inputs
    /\ UNCHANGED <<simulation_mode, is_busy, task, channel, managers, before, task_rx,
                   worker_journal, worker_wrote,
                   threads>>

\* key 'r': App::rollback_last_change, and what handle_key_event and
\* run_app do with its error
KeyRollbackLast(outs, out) ==
    /\ loop_exit = "running"
    /\ ~is_busy
    /\ RollbackLast(simulation_mode, outs, out)
    /\ system' = RunAll(system, Effective(executed'))
    /\ IF ret' = "Ok"
       THEN /\ status_message' = Status("Rolled back last change", <<>>)
            /\ UNCHANGED loop_exit
       ELSE /\ loop_exit' = "error"
            /\ UNCHANGED status_message
    /\ UNCHANGED diff_inputs
    /\ UNCHANGED <<simulation_mode, is_busy, task, channel, managers, before, task_rx,
                   worker_journal, worker_wrote,
                   threads>>

\* key 'c' in the rollback history view: App::clear_rollback_history
KeyClearHistory(out) ==
    /\ loop_exit = "running"
    /\ ~is_busy
    /\ ClearHistory(out)
    /\ IF ret' = "Ok"
       THEN /\ status_message' = Status("Rollback history cleared", <<>>)
            /\ UNCHANGED loop_exit
       ELSE /\ loop_exit' = "error"
            /\ UNCHANGED status_message
    /\ UNCHANGED <<diff_inputs, system>>
    /\ UNCHANGED <<simulation_mode, is_busy, task, channel, managers, before, task_rx,
                   worker_journal, worker_wrote,
                   threads>>

\* key 'q', taken while a task runs too
KeyQuit ==
    /\ loop_exit = "running"
    /\ loop_exit' = "quit"
    /\ UNCHANGED journal_vars
    /\ UNCHANGED <<now, diff_inputs, system>>
    /\ UNCHANGED <<status_message, simulation_mode, is_busy, task, channel,
                   managers, before, task_rx, worker_journal, worker_wrote,
                   threads>>

\* the tick that leaves is_busy set when the task has failed
TickReceive_failed_stays_busy ==
    /\ loop_exit = "running"
    /\ is_busy
    /\ task_rx
    /\ channel # <<>>
    /\ is_busy' = (Head(channel).error # "none")
    /\ task_rx' = FALSE
    /\ channel' = <<>>
    /\ task' = NoTask
    /\ LET res == Head(channel)
       IN  IF res.error # "none"
           THEN /\ status_message' = Status("Error", <<res.error>>)
                /\ UNCHANGED journal_vars
                /\ UNCHANGED <<now, managers>>
           ELSE /\ status_message' = Status("Success", res.description)
                /\ managers' = refresh_data(simulation_mode, system)
                /\ LET state == get_current_system_state(managers')
                   IN  \E auto \in generate_rollback_commands(state, state),
                          out \in SaveOutcomes :
                          RecordChange(res.action, res.description, state, state,
                                       res.rollback_commands, auto, out)
    /\ UNCHANGED <<diff_inputs, system>>
    /\ UNCHANGED <<loop_exit, simulation_mode, before, worker_journal,
                   worker_wrote,
                   threads>>

\* App::tick while a task runs and try_recv finds its TaskResult
TickReceive ==
    /\ loop_exit = "running"
    /\ is_busy
    /\ task_rx
    /\ channel # <<>>
    /\ is_busy' = FALSE
    /\ task_rx' = FALSE
    /\ channel' = <<>>
    /\ task' = NoTask
    /\ LET res == Head(channel)
       IN  IF res.error # "none"
           THEN /\ status_message' = Status("Error", <<res.error>>)
                /\ UNCHANGED journal_vars
                /\ UNCHANGED <<now, managers>>
           ELSE /\ status_message' = Status("Success", res.description)
                /\ managers' = refresh_data(simulation_mode, system)
                /\ LET state == get_current_system_state(managers')
                   IN  \E auto \in generate_rollback_commands(state, state),
                          out \in SaveOutcomes :
                          RecordChange(res.action, res.description, state, state,
                                       res.rollback_commands, auto, out)
    /\ UNCHANGED <<diff_inputs, system>>
    /\ UNCHANGED <<loop_exit, simulation_mode, before, worker_journal,
                   worker_wrote,
                   threads>>

\* App::tick while no task runs and the update interval has passed
TickRefresh ==
    /\ loop_exit = "running"
    /\ ~is_busy
    /\ managers' = refresh_data(simulation_mode, system)
    /\ managers' # managers
    /\ UNCHANGED journal_vars
    /\ UNCHANGED <<now, diff_inputs, system>>
    /\ UNCHANGED <<loop_exit, status_message, simulation_mode, is_busy, task,
                   channel, before, task_rx, worker_journal, worker_wrote,
                   threads>>

KeyEnterBooleanStep == \E i \in DOMAIN managers.booleans : KeyEnterBoolean(i)

KeyEnterRollbackStep == \E i \in DOMAIN change_history : KeyEnterRollback(i)

WorkerSetBooleanStep == \E outcome \in Outcomes : WorkerSetBoolean(outcome)

WorkerRollbackLastStep ==
    \E outs \in OutcomesFor(task.journal, simulation_mode) :
       WorkerRollbackLast(outs)

KeyRollbackLastStep ==
    \E out \in SaveOutcomes :
       \E outs \in OutcomesFor(change_history, simulation_mode) :
          KeyRollbackLast(outs, out)

KeyClearHistoryStep == \E out \in SaveOutcomes : KeyClearHistory(out)

AppNext ==
    \/ AppClock
    \/ KeyEnterBooleanStep
    \/ KeyEnterRollbackStep
    \/ WorkerSetBooleanStep
    \/ WorkerRollbackTest
    \/ WorkerRollbackLastStep
    \/ KeyRollbackLastStep
    \/ KeyClearHistoryStep
    \/ KeyQuit
    \/ TickReceive
    \/ TickRefresh

AppSpec == AppInit /\ [][AppNext]_vars

\* the thread of spawn_task runs on: nothing in the code suspends it
AppFairSpec ==
    AppSpec /\ WF_vars(WorkerSetBooleanStep) /\ WF_vars(WorkerRollbackTest)
            /\ WF_vars(WorkerRollbackLastStep)

\* the steps of the application within one reading of the clock: the keys,
\* the thread and tick do not depend on the time
AppTickNext ==
    \/ KeyEnterBooleanStep
    \/ KeyEnterRollbackStep
    \/ WorkerSetBooleanStep
    \/ WorkerRollbackTest
    \/ WorkerRollbackLastStep
    \/ KeyRollbackLastStep
    \/ KeyClearHistoryStep
    \/ KeyQuit
    \/ TickReceive
    \/ TickRefresh

\* the control loop goes on ticking: run_app calls tick in every turn,
\* whether a key came or not
AppTickSpec == AppInit /\ [][AppTickNext]_vars /\ WF_vars(TickReceive)

AppTypeOK ==
    /\ loop_exit \in {"running", "quit", "error"}
    /\ is_busy \in BOOLEAN
    /\ Len(channel) <= 1
    /\ task.pc \in {"none", "run", "test", "found", "done"}

(***************************************************************************)
(* The journal's owner and the threads of spawn_task.                      *)
(***************************************************************************)
\* C25: the journal's history and its file are mutated by the control loop
\* alone: in every reachable state no thread of spawn_task has run a
\* journal operation or written the history file.
C25_SingleWriter == ~worker_journal /\ ~worker_wrote

\* the front record was made for a task that set a boolean
FrontIsForwardChange ==
    /\ op = "record_change"
    /\ ~is_busy
    /\ change_history # <<>>
    /\ StartsWith(Head(change_history).action, FmtSettingBoolean)

\* C26: the record the application made for a completed forward change
\* carries as previous_state the snapshot of the policy taken before the
\* change and as new_state the snapshot taken after it.
C26_BeforeAfterSnapshots ==
    (stage = "app" /\ FrontIsForwardChange) =>
        /\ Head(change_history).previous_state = before
        /\ Head(change_history).new_state = get_current_system_state(PolicySurface)

\* no task has more than one outcome in its channel
AtMostOneOutcome == Len(channel) <= 1

\* the step in which the owner receives an outcome makes one record with
\* the outcome's description and undo commands if the task succeeded and
\* none if it failed, and no other step makes a record
RecordPerOutcome ==
    /\ (is_busy /\ ~is_busy') =>
          LET res == Head(channel)
          IN  IF res.error = "none"
              THEN /\ change_history' # <<>>
                   /\ change_history' =
                        trim_history(<<Head(change_history')>> \o change_history)
                   /\ Head(change_history').action = res.action
                   /\ Head(change_history').description = res.description
                   /\ Head(change_history').rollback_commands = res.rollback_commands
                   /\ op' = "record_change"
              ELSE UNCHANGED <<change_history, disk, op>>
    /\ (op' = "record_change" /\ (op # op' \/ change_history # change_history')) =>
          (is_busy /\ ~is_busy' /\ channel # <<>>)

OwnerRecordsOutcomes == [][RecordPerOutcome]_vars

\* a task that was spawned sends an outcome, as long as the process runs
EveryTaskDelivers ==
    (is_busy /\ loop_exit = "running") ~> (channel # <<>> \/ loop_exit # "running")

\* C27: every task delivers exactly one outcome through its channel, only
\* the owner calls record_change, a task that succeeded makes exactly one
\* record with its description and explicit undo commands, and a task that
\* failed makes none.
C27_OneOutcomeOneRecord ==
    /\ []AtMostOneOutcome
    /\ OwnerRecordsOutcomes
    /\ EveryTaskDelivers

\* C30: after a rollback the operator triggered has failed, the control loop
\* is still running and the status text reports the failure.
C30_RollbackFailureReported ==
    (stage = "app" /\ op = "rollback_last" /\ ret # "Ok") =>
        /\ loop_exit = "running"
        /\ status_message.text = "Error"

(***************************************************************************)
(* Records in the history.                                                 *)
(***************************************************************************)
\* h2 holds the records of h that stayed, as they were and in their order,
\* behind at most one new front record: the front of h was popped or not,
\* records went from the back or not, or the history was cleared
Kept(h, h2) ==
    \/ h2 = h
    \/ h2 = <<>>
    \/ h # <<>> /\ IsPrefix(h2, Tail(h))
    \/ h2 # <<>> /\ IsPrefix(Tail(h2), h)
    \/ h2 # <<>> /\ h # <<>> /\ IsPrefix(Tail(h2), Tail(h))

\* C31: no step of the application (a task that changes the policy, a
\* refresh of the managers, record_change, a rollback, a clear) changes a
\* record that stays in the owner's history or in the copy a rollback task
\* works on: records only leave, from the front, from the back or all.
C31_RecordsNeverChange ==
    [][/\ Kept(change_history, change_history')
       /\ (task.pc \in {"test", "found"}) => Kept(task.journal, task'.journal)]_vars

\* a record behind the front holds a snapshot that the managers have since
\* moved away from
C31_Witness ==
    /\ stage = "app"
    /\ ~simulation_mode
    /\ Len(change_history) = 2
    /\ change_history[2].new_state.booleans # managers.booleans
    /\ change_history[2].new_state.booleans # system.booleans

\* the step is a call of record_change, a call of rollback_last, or the
\* call of rollback_last in the loop of rollback_to_id: the clock's step is
\* the only other one that leaves op like that
IsRecordChange == op' = "record_change" /\ now' = now
IsRollbackLast == op' = "rollback_last" /\ now' = now
IsLoopRollback ==
    pc = "rollback_to_id_found" /\ op' = "rollback_to_id" /\ now' = now

\* the commands the step has run
RanNow ==
    IF op' = "rollback_last" THEN CmdsOf(executed')
    ELSE CmdsOf(SubSeq(executed', Len(executed) + 1, Len(executed')))

\* every record that is not a marker lists no applied command
ForwardRecordsUnapplied ==
    \A i \in 1..Len(change_history) :
        change_history[i].action # ActRollback =>
            change_history[i].applied_commands = <<>>

\* the applied_commands of a record that a step pushes: none for the record
\* of record_change; for a marker, those of the popped record followed by
\* the commands the step has run, in the order they ran
AppliedAsExecuted ==
    /\ IsRecordChange => Head(change_history').applied_commands = <<>>
    /\ ((IsRollbackLast \/ IsLoopRollback) /\ ret' \in {"Ok", "running"}) =>
          /\ change_history # <<>>
          /\ change_history' # <<>>
          /\ Head(change_history').applied_commands =
                Head(change_history).applied_commands \o RanNow

\* C32: a record made by record_change has an empty applied_commands, and
\* the applied_commands of every record in the history lists only commands
\* that were run, in the order they ran: a marker carries those of the
\* record it replaced followed by what its own rollback ran.
C32_AppliedOnlyExecuted ==
    /\ []ForwardRecordsUnapplied
    /\ [][AppliedAsExecuted]_vars

\* a marker that lists the two commands its rollback ran
C32_Witness ==
    /\ op = "rollback_last"
    /\ ret = "Ok"
    /\ ~arg_simulation
    /\ Len(executed) = 2
    /\ Head(change_history).applied_commands = CmdsOf(executed)

(***************************************************************************)
(* rollback_last after rollback_last.                                      *)
(***************************************************************************)
\* C33: a successful rollback_last leaves the length of the history and
\* every record behind the front as they were, and a rollback_last that
\* follows a successful one runs no command: it pops the marker, succeeds
\* and again leaves the records behind the front alone, so that only the
\* commands of the record at the front before the first call are run.
C33_RollbackStaysAtFront ==
    [][/\ (IsRollbackLast /\ ret' = "Ok") =>
             /\ Len(change_history') = Len(change_history)
             /\ change_history # <<>>
             /\ Tail(change_history') = Tail(change_history)
       /\ (IsRollbackLast /\ op = "rollback_last" /\ ret = "Ok") =>
             /\ ret' = "Ok"
             /\ executed' = <<>>
             /\ Head(change_history).action = ActRollback]_vars

\* the second of two rollback_last calls has run, not simulated, over a
\* record with commands that the two calls left where it was
C33_Witness ==
    /\ op = "rollback_last"
    /\ ret = "Ok"
    /\ ~arg_simulation
    /\ executed = <<>>
    /\ Len(change_history) = 2
    /\ Head(change_history).description = FmtRolledBack \o FmtRollbackId \o Dec(now)
    /\ change_history[2].rollback_commands # <<>>
    /\ change_history[2].applied_commands = <<>>

(***************************************************************************)
(* rollback_to_id of the front record.                                     *)
(***************************************************************************)
\* how the commands the call ran ended
OutcomesOf(log) == [i \in DOMAIN log |-> log[i].outcome]

\* C34: rollback_to_id with the id of the front record, once it has
\* returned, has done what one rollback_last does on the history it was
\* entered with: the same result, the same commands run, the same history
\* (one pop, one marker on Ok), the file written if and only if
\* rollback_last writes it, and one call of rollback_last.
C34_FrontIdIsRollbackLast ==
    (/\ op = "rollback_to_id"
     /\ pc = "idle"
     /\ entry_history # <<>>
     /\ Head(entry_history).id = arg_id) =>
        \E t \in 1..now :
            LET r == rollback_last(entry_history, arg_simulation, t,
                                   OutcomesOf(executed))
            IN  /\ ret = r.result
                /\ change_history = r.history
                /\ executed = r.ran
                /\ rb_count = 1
                /\ disk_written = r.saves
                /\ r.saves => disk \in {Stored(r.history), Corrupt}

\* the call has returned Ok for the front record of two, having run its
\* commands, with the second record still behind the marker
C34_Witness ==
    /\ op = "rollback_to_id"
    /\ pc = "idle"
    /\ ret = "Ok"
    /\ Len(entry_history) = 2
    /\ Head(entry_history).id = arg_id
    /\ entry_history[2].id # arg_id
    /\ executed # <<>>
    /\ Len(change_history) = 2
    /\ Head(change_history).action = ActRollback
    /\ change_history[2] = entry_history[2]

(***************************************************************************)
(* rollback_last that cannot run a command.                                *)
(***************************************************************************)
\* C35: a rollback_last that returns the error of a command that could not
\* be run leaves the history without its front record and without a
\* marker, and leaves the file as it was: a file that held the history
\* still holds the removed record.
C35_FailedRollbackDropsRecord ==
    [][(IsRollbackLast /\ ret' = "CommandError") =>
          /\ ~arg_simulation'
          /\ change_history # <<>>
          /\ change_history' = Tail(change_history)
          /\ disk' = disk
          /\ ~disk_written'
          /\ disk = Stored(change_history) =>
                disk' = Stored(<<Head(change_history)>> \o change_history')]_vars

\* the call has failed at its second command and the file holds one record
\* more than the history, at the front
C35_Witness ==
    /\ op = "rollback_last"
    /\ ret = "CommandError"
    /\ Len(executed) = 2
    /\ disk.kind = "list"
    /\ Len(disk.list) = Len(change_history) + 1
    /\ Tail(disk.list) = change_history
    /\ Head(disk.list).rollback_commands = CmdsOf(executed)

(***************************************************************************)
(* The applied_commands of a marker.                                       *)
(***************************************************************************)
\* C36: after a successful rollback_last of record R the marker's
\* applied_commands is R.rollback_commands if the call was not simulated
\* and R.applied_commands if it was.
C36_MarkerAppliedIsCommands ==
    [][(IsRollbackLast /\ ret' = "Ok") =>
          /\ change_history # <<>>
          /\ change_history' # <<>>
          /\ Head(change_history').applied_commands =
                IF arg_simulation' THEN Head(change_history).applied_commands
                ELSE Head(change_history).rollback_commands]_vars

\* C36 as the code has it: after a successful rollback_last of record R the
\* marker's applied_commands is R.applied_commands followed by
\* R.rollback_commands if the call was not simulated, which is
\* R.rollback_commands for a record made by record_change, and
\* R.applied_commands if it was simulated.
C36_MarkerAppliedCarriesOver ==
    [][(IsRollbackLast /\ ret' = "Ok") =>
          /\ change_history # <<>>
          /\ change_history' # <<>>
          /\ Head(change_history').applied_commands =
                IF arg_simulation' THEN Head(change_history).applied_commands
                ELSE Head(change_history).applied_commands
                        \o Head(change_history).rollback_commands
          /\ (~arg_simulation' /\ Head(change_history).action # ActRollback) =>
                Head(change_history').applied_commands =
                    Head(change_history).rollback_commands]_vars

\* a rollback_last that was not simulated has replaced a marker: the new
\* marker lists the commands of the marker it replaced, which has no
\* rollback_commands
C36_Witness ==
    /\ op = "rollback_last"
    /\ ret = "Ok"
    /\ ~arg_simulation
    /\ executed = <<>>
    /\ Head(change_history).description = FmtRolledBack \o FmtRollbackId \o Dec(now)
    /\ Head(change_history).applied_commands # <<>>

(***************************************************************************)
(* One task at a time.                                                     *)
(***************************************************************************)
\* at most one thread of spawn_task has not ended, and is_busy is set while
\* one has not and until its outcome is received
OneTaskInFlight ==
    /\ threads <= 1
    /\ threads = 1 => is_busy
    /\ channel # <<>> => is_busy

\* a step taken while is_busy is set and that leaves it set starts no
\* thread and is no rollback, clear or record of the owner: the owner's
\* history, the last operation and its result, the managers' lists and the
\* status text stay as they are
BusyOwnerIdle ==
    (is_busy /\ is_busy') =>
        /\ threads' <= threads
        /\ UNCHANGED <<change_history, op, ret, executed, managers,
                       status_message, before>>

\* C37: at most one background task is in flight at any time, and while
\* is_busy is set the owner starts no task, rollback or clear: only the
\* quit key and the thread's own steps are taken until the tick that
\* receives the outcome.
C37_OneTaskAtATime ==
    /\ []OneTaskInFlight
    /\ [][BusyOwnerIdle]_vars

\* a task is in flight while the history holds a record the owner could
\* roll back or clear
C37_Witness ==
    /\ stage = "app"
    /\ is_busy
    /\ threads = 1
    /\ task.pc = "run"
    /\ change_history # <<>>
    /\ Head(change_history).rollback_commands # <<>>

(***************************************************************************)
(* is_busy and the receiver.                                               *)
(***************************************************************************)
\* is_busy is set exactly while a receiver is held
BusyIffReceiver == is_busy <=> task_rx

\* once the task of a spawned thread has returned and its outcome is sent,
\* is_busy is cleared and the receiver dropped, unless the loop has ended
ReturnedTaskIsReceived ==
    (is_busy /\ task.pc = "done") ~>
        ((~is_busy /\ ~task_rx) \/ loop_exit # "running")

\* C38: after a task was spawned and has returned, a control loop that
\* keeps ticking clears is_busy and drops the receiver; is_busy is set
\* exactly while a receiver is held.
C38_BusyUntilReceived ==
    /\ []BusyIffReceiver
    /\ ReturnedTaskIsReceived

\* the outcome of a failed task has been received: the loop runs, is_busy
\* is cleared and no receiver is held
C38_Witness ==
    /\ stage = "app"
    /\ loop_exit = "running"
    /\ status_message.text = "Error"
    /\ ~is_busy
    /\ ~task_rx
    /\ channel = <<>>
    /\ threads = 0

\* the records of the history from the front to the back were made at
\* clock readings that do not grow
OrderedByTime ==
    \A i, j \in 1..Len(change_history) :
        i < j => change_history[i].timestamp >= change_history[j].timestamp

\* the record a step makes is the front of the history it leaves, and the
\* records behind it are those that were there, in their order: all of
\* them or all but the last after record_change, all but the popped front
\* after a rollback; a rollback that fails leaves the records behind the
\* popped one and makes none
NewestAtFront ==
    /\ IsRecordChange =>
          /\ change_history' # <<>>
          /\ Head(change_history').timestamp = now
          /\ Head(change_history').action # ActRollback
          /\ IsPrefix(Tail(change_history'), change_history)
          /\ Len(change_history') >= Len(change_history)
    /\ (IsRollbackLast \/ IsLoopRollback) =>
          IF change_history = <<>> THEN change_history' = <<>>
          ELSE \/ change_history' = Tail(change_history)
               \/ /\ change_history' # <<>>
                  /\ Head(change_history').timestamp = now
                  /\ Head(change_history').action = ActRollback
                  /\ Tail(change_history') = Tail(change_history)

\* C39: the history is ordered by creation, the newest record at the
\* front: of any two records the one nearer the front was pushed at the
\* same reading of the clock or a later one, and record_change,
\* rollback_last and the rollbacks of rollback_to_id put the record they
\* make in front of the records that stay, whose order they keep.
C39_NewestFirst ==
    /\ []OrderedByTime
    /\ [][NewestAtFront]_vars

\* a marker made at the second reading of the clock in front of a record
\* made at the first
C39_Witness ==
    /\ stage = "journal"
    /\ op = "rollback_last"
    /\ ret = "Ok"
    /\ Len(change_history) = 2
    /\ change_history[1].action = ActRollback
    /\ change_history[1].timestamp = 2
    /\ change_history[2].action # ActRollback
    /\ change_history[2].timestamp = 1

====
